---- MODULE Spec2Model ----
(***************************************************************************)
(* Session registries and command router of the database client.          *)
(*                                                                         *)
(* DatabaseManager (src/src/main/database/databaseManager.ts) and          *)
(* RedisManager (src/unnamed/part_002) each own a Map from connection id   *)
(* to a live driver handle; the ipcMain handlers (src/unnamed/part_001)    *)
(* call one registry method each and wrap its outcome in an envelope.      *)
(*                                                                         *)
(* Every registry method is an async function: it runs without             *)
(* interruption up to an awaited driver call, and is resumed when that     *)
(* call settles. One action of this model is one such run: the start of a  *)
(* handler up to its first await, or the resumption after an awaited call  *)
(* up to the next await or the handler's return. The drivers (mysql2,      *)
(* ioredis) are outside the repository: an awaited call on an open handle  *)
(* either resolves or rejects, a call on a handle that is closing or       *)
(* closed rejects.                                                         *)
(*                                                                         *)
(* Spec follows the sessions and the envelopes of concurrent invocations   *)
(* and keeps the results of the drivers' commands abstract. SpecTables and *)
(* SpecKeys follow one caller's operations through to the data of a MySQL  *)
(* server (a table's primary key and rows) and of a Redis server (its      *)
(* keyspace).                                                              *)
(* SpecSessions and SpecRace run concurrent callers on that Redis server,  *)
(* on several sessions and on one; SpecColumns follows the DEFAULT clause   *)
(* of addColumn and modifyColumn; SpecHang lets a server stop answering     *)
(* and states the fairness of the event loop; SpecPanel adds the renderer   *)
(* (src/src/renderer), which keeps the list of saved connections.           *)
(***************************************************************************)
EXTENDS Integers, Sequences, FiniteSets, TLC

\* ------------------------------------------------------------------ bounds
\* uuidv4() values drawn over a run
MaxIds == 1
\* driver objects (mysql connections, Redis clients) created over a run
MaxHandles == 2
\* handler invocations in flight at the same time
MaxTasks == 2
\* uuidv4() values drawn over a run that follows several sessions
MaxSessions == 2
\* connections saved in the renderer's list
MaxSaved == 2
\* distinct values of the table's key column
MaxRows == 2
\* length of the value list handed to deleteRows
MaxList == 2

TaskIds == 1..MaxTasks

\* ----------------------------------------------------------------- values
\* the null of `connection: mysql.Connection | null` / `client: Redis | null`
Null == 0
\* an id string no uuidv4() call of this process ever returned
UnknownId == 0
Undefined == "undefined"
NoDb == "none"
Databases == {"a", "b"}
ConfigTypes == {"mysql", "postgresql", "sqlite"}

NotFoundDb == "Connection not found or closed"
NotFoundRedis == "Redis connection not found or closed"
NotSupported == "Database type is not yet supported"
\* the message of whatever Error the driver rejected with
DriverError == "driver error"
\* the message of the server's ER_PARSE_ERROR
SyntaxError == "You have an error in your SQL syntax"

\* ------------------------------------------------------------ the backends
\* The servers behind the handles. A relational database holds one table: its
\* key column has no duplicates, so its rows are the set of their key values.
RowValues == 1..MaxRows
NoTable == [primaryKey |-> FALSE, rows |-> {}]
Tables == [Databases -> [primaryKey : BOOLEAN, rows : SUBSET RowValues]]

\* Redis logical databases (two of db0..db15) and key names; a key is the
\* sequence of its UTF-16 code units, <<2>> standing for the prefix "user:"
DbIndexes == {0, 1}
\* the logical databases a server has (db0..db15), and an index it has not
LogicalDatabases == 0..15
NoSuchIndex == 16
Keys == {<<1>>, <<2, 1>>, <<2, 2>>}
Strings == {"v", "w"}
\* what a key holds: nothing, a string without expiry, or a list that expires
NoEntry == [type |-> "none", value |-> "null", ttl |-> -2]
StringEntry(v) == [type |-> "string", value |-> v, ttl |-> -1]
ListEntry == [type |-> "list", value |-> "items in order", ttl |-> 60]
\* the other structures, and one (a stream) no accessor of getValue reads
SetEntry == [type |-> "set", value |-> "members", ttl |-> -1]
ZsetEntry == [type |-> "zset", value |-> "members with scores in order", ttl |-> -1]
HashEntry == [type |-> "hash", value |-> "fields to values", ttl |-> -1]
StreamEntry == [type |-> "stream", value |-> "entries", ttl |-> -1]
\* the server's reply to a command against a key of another type
WrongType == "WRONGTYPE Operation against a key holding the wrong kind of value"

VARIABLES
    dbConnections,    \* DatabaseManager.connections: id -> Connection
    redisConnections, \* RedisManager.connections: id -> RedisConnection
    handles,          \* the driver objects created so far, by creation order
    nextUuid,         \* the next value uuidv4() returns
    tasks,            \* the handler invocations: in flight, or returned
    known,            \* the connection ids a connect has returned to its caller
    disconnected,     \* history: <<registry, id>> of the sessions a disconnect returned for
    tables,           \* the MySQL server: per database, the table's primary key and rows
    keyspace,         \* the Redis server: per logical database, the entry of each key
    written,          \* history: the string writes that returned and still stand
    app               \* the renderer: App's connections state and the handler it is in

vars == <<dbConnections, redisConnections, handles, nextUuid, tasks, known, disconnected,
          tables, keyspace, written, app>>

\* ------------------------------------------------------------ the router
\* One record per ipcMain.handle: the registry it calls, the method, the
\* control-flow form of that method, and what the handler puts in the success
\* envelope ("data": the method's result, "connectionId", or "none").
\* Methods of one form differ only in the statement text they send.
DbHandlers ==
    { [channel |-> "db:test-connection", method |-> "testConnection", form |-> "testConnection", reply |-> "data"],
      [channel |-> "db:connect", method |-> "connect", form |-> "connect", reply |-> "connectionId"],
      [channel |-> "db:disconnect", method |-> "disconnect", form |-> "disconnect", reply |-> "none"],
      [channel |-> "db:get-databases", method |-> "getDatabases", form |-> "query", reply |-> "data"],
      [channel |-> "db:get-tables", method |-> "getTables", form |-> "useQuery", reply |-> "data"],
      [channel |-> "db:get-table-structure", method |-> "getTableStructure", form |-> "useQuery", reply |-> "data"],
      [channel |-> "db:execute-query", method |-> "executeQuery", form |-> "useQuery", reply |-> "data"],
      [channel |-> "db:get-table-data", method |-> "getTableData", form |-> "useQuery", reply |-> "data"],
      [channel |-> "db:create-table", method |-> "createTable", form |-> "useQuery", reply |-> "none"],
      [channel |-> "db:drop-table", method |-> "dropTable", form |-> "useQuery", reply |-> "none"],
      [channel |-> "db:get-table-columns", method |-> "getTableColumns", form |-> "useQuery", reply |-> "data"],
      [channel |-> "db:update-row", method |-> "updateRow", form |-> "useQuery", reply |-> "none"],
      [channel |-> "db:delete-row", method |-> "deleteRow", form |-> "useQuery", reply |-> "none"],
      [channel |-> "db:add-column", method |-> "addColumn", form |-> "useQuery", reply |-> "none"],
      [channel |-> "db:modify-column", method |-> "modifyColumn", form |-> "useQuery", reply |-> "none"],
      [channel |-> "db:drop-column", method |-> "dropColumn", form |-> "useQuery", reply |-> "none"],
      [channel |-> "db:insert-row", method |-> "insertRow", form |-> "useQuery", reply |-> "none"],
      [channel |-> "db:delete-rows", method |-> "deleteRows", form |-> "useQuery", reply |-> "data"],
      [channel |-> "db:truncate-table", method |-> "truncateTable", form |-> "useQuery", reply |-> "none"],
      [channel |-> "db:get-table-indexes", method |-> "getTableIndexes", form |-> "useQuery", reply |-> "data"],
      [channel |-> "db:get-table-foreign-keys", method |-> "getTableForeignKeys", form |-> "query", reply |-> "data"],
      [channel |-> "db:add-index", method |-> "addIndex", form |-> "useQuery", reply |-> "none"],
      [channel |-> "db:drop-index", method |-> "dropIndex", form |-> "useQuery", reply |-> "none"],
      [channel |-> "db:add-foreign-key", method |-> "addForeignKey", form |-> "useQuery", reply |-> "none"],
      [channel |-> "db:drop-foreign-key", method |-> "dropForeignKey", form |-> "useQuery", reply |-> "none"],
      [channel |-> "db:modify-primary-key", method |-> "modifyPrimaryKey", form |-> "modifyPrimaryKey", reply |-> "none"] }

RedisHandlers ==
    { [channel |-> "redis:test-connection", method |-> "testConnection", form |-> "testConnection", reply |-> "data"],
      [channel |-> "redis:connect", method |-> "connect", form |-> "connect", reply |-> "connectionId"],
      [channel |-> "redis:disconnect", method |-> "disconnect", form |-> "disconnect", reply |-> "none"],
      [channel |-> "redis:get-databases", method |-> "getDatabases", form |-> "getDatabases", reply |-> "data"],
      [channel |-> "redis:select-database", method |-> "selectDatabase", form |-> "call", reply |-> "none"],
      [channel |-> "redis:get-keys", method |-> "getKeys", form |-> "call", reply |-> "data"],
      [channel |-> "redis:get-value", method |-> "getValue", form |-> "getValue", reply |-> "data"],
      [channel |-> "redis:set-value", method |-> "setValue", form |-> "setValue", reply |-> "none"],
      [channel |-> "redis:delete-key", method |-> "deleteKey", form |-> "call", reply |-> "data"],
      [channel |-> "redis:get-ttl", method |-> "getTTL", form |-> "call", reply |-> "data"],
      [channel |-> "redis:execute-command", method |-> "executeCommand", form |-> "call", reply |-> "data"],
      [channel |-> "redis:get-info", method |-> "getInfo", form |-> "call", reply |-> "data"],
      [channel |-> "redis:get-dbsize", method |-> "getDbSize", form |-> "call", reply |-> "data"] }

\* The outcome of a registry method: it returned a value, or threw an Error
\* with a message.
Return(v) == [threw |-> FALSE, value |-> v]
Throw(m) == [threw |-> TRUE, value |-> m]

\* Handler with a fault: the catch block lets the Error escape instead of returning
HandlerRethrows(reply, outcome) ==
    IF outcome.threw
    THEN [thrown |-> outcome.value]
    ELSE CASE reply = "data" -> [success |-> TRUE, data |-> outcome.value]
           [] reply = "connectionId" -> [success |-> TRUE, connectionId |-> outcome.value]
           [] OTHER -> [success |-> TRUE]

\* Handler with a fault: a success envelope of a method without a result
\* carries data: undefined and error: null
HandlerErrorNull(reply, outcome) ==
    IF outcome.threw
    THEN [success |-> FALSE, error |-> outcome.value]
    ELSE CASE reply = "data" -> [success |-> TRUE, data |-> outcome.value]
           [] reply = "connectionId" -> [success |-> TRUE, connectionId |-> outcome.value]
           [] OTHER -> [success |-> TRUE, data |-> Undefined, error |-> "null"]

\* try { const r = await manager.method(...); return {success: true, ...} }
\* catch (error) { return {success: false, error: error.message} }
Handler(reply, outcome) ==
    IF outcome.threw
    THEN [success |-> FALSE, error |-> outcome.value]
    ELSE CASE reply = "data" -> [success |-> TRUE, data |-> outcome.value]
           [] reply = "connectionId" -> [success |-> TRUE, connectionId |-> outcome.value]
           [] OTHER -> [success |-> TRUE]

\* ------------------------------------------------------------- the tasks
NoOutcome == [threw |-> FALSE, value |-> "pending"]
NoEnvelope == [pending |-> TRUE]

\* A handler invocation. pc names the awaited driver call ("idle": the slot
\* holds no invocation, "done": the handler returned env). conn is the handle
\* the method holds in a local; calls counts the driver calls it has issued.
\* absent, afterDisconnect, ranIn, clobbered and probe are history, and so are
\* before (the table as the method's first ALTER or DELETE found it) and
\* swallowed (the catch around DROP PRIMARY KEY caught an Error). method names
\* the registry method where the steps of its form depend on it.
NoTask ==
    [pc |-> "idle", mgr |-> "", form |-> "", reply |-> "", id |-> UnknownId,
     database |-> NoDb, arg |-> "", conn |-> Null, calls |-> 0,
     out |-> NoOutcome, env |-> NoEnvelope,
     absent |-> FALSE, afterDisconnect |-> FALSE,
     ranIn |-> NoDb, clobbered |-> FALSE, probe |-> Null,
     before |-> NoTable, swallowed |-> FALSE, method |-> ""]

\* slot t can take a new invocation: the caller issues one only after the
\* envelopes already returned have been handed over (see Reply)
Free(t) == tasks[t].pc = "idle" /\ \A u \in TaskIds : tasks[u].pc # "done"

Registry(mgr) == IF mgr = "db" THEN dbConnections ELSE redisConnections

\* the ids a caller can pass: one a connect has returned, or an unknown one
IdArgs == known \cup {UnknownId}

\* the invocation of a handler with session id `id`, at its first line
Start(mgr, form, reply, id, database, arg) ==
    [NoTask EXCEPT !.pc = "start", !.mgr = mgr, !.form = form, !.reply = reply,
                   !.id = id, !.database = database, !.arg = arg,
                   !.absent = id \notin DOMAIN Registry(mgr),
                   !.afterDisconnect = <<mgr, id>> \in disconnected]

\* the handler of `task` returns: the method's outcome goes through Handler
Finished(task, outcome) ==
    [task EXCEPT !.pc = "done", !.out = outcome, !.env = Handler(task.reply, outcome),
                 !.conn = Null]

\* the method of `task` suspends on a driver call named pc
Awaiting(task, pc) == [task EXCEPT !.pc = pc, !.calls = task.calls + 1]

\* ----------------------------------------------------------- the drivers
\* a driver object as created: closeIssued tells whether end() / quit() was
\* ever called on it; db is the current database of a mysql connection, index
\* the logical database of a Redis client (db: config.database || 0); stalled
\* tells that the peer has stopped answering on the handle's socket
NewHandle == [status |-> "open", db |-> NoDb, index |-> 0, closeIssued |-> FALSE,
              stalled |-> FALSE]

\* how an awaited command on handle h can settle
CallOutcomes(h) == IF handles[h].status = "open" THEN {"ok", "error"} ELSE {"error"}

\* end() / quit() is issued on h: the handle stops taking commands
CloseIssued(hs, h) ==
    [hs EXCEPT ![h].status = IF @ = "open" THEN "closing" ELSE @,
               ![h].closeIssued = TRUE]

\* end() / quit() resolved
CloseResolved(hs, h) == [hs EXCEPT ![h].status = "closed"]

\* end() / quit() rejected: the driver leaves the handle usable, or dead
CloseRejected(hs, h) ==
    { [hs EXCEPT ![h].status = s] : s \in {"open", "closed"} }

\* the renderer when the window opens with nothing saved: an empty list and
\* no handler awaiting an envelope
NoHandler == [op |-> "none", id |-> UnknownId, type |-> ""]
NoApp == [connections |-> <<>>, handler |-> NoHandler]

Init ==
    /\ dbConnections = <<>>
    /\ redisConnections = <<>>
    /\ handles = <<>>
    /\ nextUuid = 1
    /\ tasks = [t \in TaskIds |-> NoTask]
    /\ known = {}
    /\ disconnected = {}
    /\ tables = [d \in Databases |-> NoTable]
    /\ keyspace = [i \in DbIndexes |-> [k \in Keys |-> NoEntry]]
    /\ written = {}
    /\ app = NoApp

\* Map.set / Map.delete
MapSet(map, id, entry) == [k \in DOMAIN map \cup {id} |-> IF k = id THEN entry ELSE map[k]]
MapDelete(map, id) == [k \in DOMAIN map \ {id} |-> map[k]]


\* the driver objects a pending createConnection may still add
PendingHandles == Cardinality({t \in TaskIds : tasks[t].pc = "createConnection"})
CanCreateHandle == Len(handles) + PendingHandles < MaxHandles
LastHandle == Len(handles) + 1

\* what the handlers of the methods of one form put in a success envelope
DbReplies(form) == {h.reply : h \in {x \in DbHandlers : x.form = form}}
RedisReplies(form) == {h.reply : h \in {x \in RedisHandlers : x.form = form}}

\* ------------------------------------------------------ DatabaseManager
\* getConnection: the handle of a registered session, or the throw
GetConnection(id) ==
    IF id \notin DOMAIN dbConnections \/ dbConnections[id].connection = Null
    THEN Throw(NotFoundDb)
    ELSE Return(dbConnections[id].connection)

\* testConnection, up to `await mysql.createConnection(...)`
DbTestConnection(t, type) ==
    /\ Free(t)
    /\ CanCreateHandle
    /\ \E reply \in DbReplies("testConnection") :
       LET task == Start("db", "testConnection", reply, UnknownId, NoDb, type) IN
       tasks' = [tasks EXCEPT ![t] =
                    IF type = "mysql"
                    THEN Awaiting(task, "createConnection")
                    ELSE Finished(task, Throw(NotSupported))]
    /\ UNCHANGED <<dbConnections, redisConnections, handles, nextUuid, known, disconnected, tables, keyspace, written, app>>

\* testConnection: createConnection settled; on success `await connection.end()`
DbTestConnectionCreated(t) ==
    /\ tasks[t].pc = "createConnection"
    /\ tasks[t].mgr = "db"
    /\ tasks[t].form = "testConnection"
    /\ \/ /\ handles' = CloseIssued(Append(handles, NewHandle), LastHandle)
          /\ tasks' = [tasks EXCEPT ![t] =
                          Awaiting([tasks[t] EXCEPT !.conn = LastHandle, !.probe = LastHandle], "end")]
       \/ /\ tasks' = [tasks EXCEPT ![t] = Finished(tasks[t], Throw(DriverError))]
          /\ UNCHANGED handles
    /\ UNCHANGED <<dbConnections, redisConnections, nextUuid, known, disconnected, tables, keyspace, written, app>>

\* testConnection: end() settled; `return true`
DbTestConnectionEnded(t) ==
    /\ tasks[t].pc = "end"
    /\ tasks[t].mgr = "db"
    /\ tasks[t].form = "testConnection"
    /\ \/ /\ handles' = CloseResolved(handles, tasks[t].conn)
          /\ tasks' = [tasks EXCEPT ![t] = Finished(tasks[t], Return("true"))]
       \/ /\ handles' \in CloseRejected(handles, tasks[t].conn)
          /\ tasks' = [tasks EXCEPT ![t] = Finished(tasks[t], Throw(DriverError))]
    /\ UNCHANGED <<dbConnections, redisConnections, nextUuid, known, disconnected, tables, keyspace, written, app>>

\* connect, up to `await mysql.createConnection(...)`: the id is drawn first
DbConnect(t, type) ==
    /\ Free(t)
    /\ CanCreateHandle
    /\ nextUuid' = nextUuid + 1
    /\ \E reply \in DbReplies("connect") :
       LET task == Start("db", "connect", reply, nextUuid, NoDb, type) IN
       tasks' = [tasks EXCEPT ![t] =
                    IF type = "mysql"
                    THEN Awaiting(task, "createConnection")
                    ELSE Finished(task, Throw(NotSupported))]
    /\ UNCHANGED <<dbConnections, redisConnections, handles, known, disconnected, tables, keyspace, written, app>>

\* connect: createConnection settled; on success connections.set and return
DbConnectCreated(t) ==
    /\ tasks[t].pc = "createConnection"
    /\ tasks[t].mgr = "db"
    /\ tasks[t].form = "connect"
    /\ \/ /\ handles' = Append(handles, NewHandle)
          /\ dbConnections' = MapSet(dbConnections, tasks[t].id,
                                     [id |-> tasks[t].id,
                                      config |-> [type |-> tasks[t].arg],
                                      connection |-> LastHandle])
          /\ tasks' = [tasks EXCEPT ![t] =
                          Finished([tasks[t] EXCEPT !.conn = LastHandle], Return(tasks[t].id))]
       \/ /\ tasks' = [tasks EXCEPT ![t] = Finished(tasks[t], Throw(DriverError))]
          /\ UNCHANGED <<handles, dbConnections>>
    /\ UNCHANGED <<redisConnections, nextUuid, known, disconnected, tables, keyspace, written, app>>

\* DbDisconnect with a fault: connections.delete before the awaited end()
DbDisconnectDeletesFirst(t, id) ==
    /\ Free(t)
    /\ \E reply \in DbReplies("disconnect") :
       LET task == Start("db", "disconnect", reply, id, NoDb, "") IN
       IF id \in DOMAIN dbConnections /\ dbConnections[id].connection # Null
       THEN /\ handles' = CloseIssued(handles, dbConnections[id].connection)
            /\ tasks' = [tasks EXCEPT ![t] =
                            Awaiting([task EXCEPT !.conn = dbConnections[id].connection], "end")]
            /\ UNCHANGED disconnected
       ELSE /\ tasks' = [tasks EXCEPT ![t] = Finished(task, Return(Undefined))]
            /\ UNCHANGED <<handles, disconnected>>
    /\ dbConnections' = MapDelete(dbConnections, id)
    /\ UNCHANGED <<redisConnections, nextUuid, known, tables, keyspace, written, app>>

\* disconnect, up to `await conn.connection.end()`; returns at once when the
\* id has no entry
DbDisconnect(t, id) ==
    /\ Free(t)
    /\ \E reply \in DbReplies("disconnect") :
       LET task == Start("db", "disconnect", reply, id, NoDb, "") IN
       IF id \in DOMAIN dbConnections /\ dbConnections[id].connection # Null
       THEN /\ handles' = CloseIssued(handles, dbConnections[id].connection)
            /\ tasks' = [tasks EXCEPT ![t] =
                            Awaiting([task EXCEPT !.conn = dbConnections[id].connection], "end")]
            /\ UNCHANGED disconnected
       ELSE /\ tasks' = [tasks EXCEPT ![t] = Finished(task, Return(Undefined))]
            /\ UNCHANGED <<handles, disconnected>>
    /\ UNCHANGED <<dbConnections, redisConnections, nextUuid, known, tables, keyspace, written, app>>

\* disconnect: end() settled; connections.delete only after it resolved
DbDisconnectEnded(t) ==
    /\ tasks[t].pc = "end"
    /\ tasks[t].mgr = "db"
    /\ tasks[t].form = "disconnect"
    /\ \/ /\ handles' = CloseResolved(handles, tasks[t].conn)
          /\ dbConnections' = MapDelete(dbConnections, tasks[t].id)
          /\ tasks' = [tasks EXCEPT ![t] = Finished(tasks[t], Return(Undefined))]
       \/ /\ handles' \in CloseRejected(handles, tasks[t].conn)
          /\ tasks' = [tasks EXCEPT ![t] = Finished(tasks[t], Throw(DriverError))]
          /\ UNCHANGED dbConnections
    /\ disconnected' = disconnected \cup {<<"db", tasks[t].id>>}
    /\ UNCHANGED <<redisConnections, nextUuid, known, tables, keyspace, written, app>>

\* history: a USE for `database` took effect on handle h; every other method
\* that holds h between its own USE and its statement, and named another
\* database, has lost its context
Clobber(ts, t, h, database) ==
    [u \in TaskIds |->
        IF u # t /\ ts[u].pc \in {"query", "dropPk", "addPk"} /\ ts[u].mgr = "db"
           /\ ts[u].form \in {"useQuery", "modifyPrimaryKey"}
           /\ ts[u].conn = h /\ ts[u].database # database
        THEN [ts[u] EXCEPT !.clobbered = TRUE]
        ELSE ts[u]]

\* getDatabases, getTableForeignKeys: getConnection, then one awaited query
DbQuery(t, id) ==
    /\ Free(t)
    /\ \E reply \in DbReplies("query") :
       LET task == Start("db", "query", reply, id, NoDb, "")
           got == GetConnection(id) IN
       tasks' = [tasks EXCEPT ![t] =
                    IF got.threw
                    THEN Finished(task, got)
                    ELSE Awaiting([task EXCEPT !.conn = got.value], "query")]
    /\ UNCHANGED <<dbConnections, redisConnections, handles, nextUuid, known, disconnected, tables, keyspace, written, app>>

\* DbUseQuery with a fault: the statement is issued without the USE
DbUseQuerySkipsUse(t, id, database) ==
    /\ Free(t)
    /\ \E reply \in DbReplies("useQuery") :
       LET task == Start("db", "useQuery", reply, id, database, "")
           got == GetConnection(id) IN
       tasks' = [tasks EXCEPT ![t] =
                    IF got.threw
                    THEN Finished(task, got)
                    ELSE Awaiting([task EXCEPT !.conn = got.value], "query")]
    /\ UNCHANGED <<dbConnections, redisConnections, handles, nextUuid, known, disconnected, tables, keyspace, written, app>>

\* the database-scoped methods: getConnection, then
\* await connection.query(`USE \`${database}\``)
DbUseQuery(t, id, database) ==
    /\ Free(t)
    /\ \E reply \in DbReplies("useQuery") :
       LET task == Start("db", "useQuery", reply, id, database, "")
           got == GetConnection(id) IN
       tasks' = [tasks EXCEPT ![t] =
                    IF got.threw
                    THEN Finished(task, got)
                    ELSE Awaiting([task EXCEPT !.conn = got.value], "use")]
    /\ UNCHANGED <<dbConnections, redisConnections, handles, nextUuid, known, disconnected, tables, keyspace, written, app>>

\* modifyPrimaryKey: getConnection, then the awaited USE; arg tells whether
\* the columns list is empty
DbModifyPrimaryKey(t, id, database, columns) ==
    /\ Free(t)
    /\ \E reply \in DbReplies("modifyPrimaryKey") :
       LET task == Start("db", "modifyPrimaryKey", reply, id, database, columns)
           got == GetConnection(id) IN
       tasks' = [tasks EXCEPT ![t] =
                    IF got.threw
                    THEN Finished(task, got)
                    ELSE Awaiting([task EXCEPT !.conn = got.value], "use")]
    /\ UNCHANGED <<dbConnections, redisConnections, handles, nextUuid, known, disconnected, tables, keyspace, written, app>>

\* DbUseDone with a fault: the USE has no effect on the current database
DbUseDoneNoEffect(t) ==
    /\ tasks[t].pc = "use"
    /\ \E r \in CallOutcomes(tasks[t].conn) :
          IF r = "ok"
          THEN /\ handles' = handles
               /\ tasks' = [Clobber(tasks, t, tasks[t].conn, tasks[t].database) EXCEPT ![t] =
                               Awaiting(tasks[t], IF tasks[t].form = "modifyPrimaryKey"
                                                  THEN "dropPk" ELSE "query")]
          ELSE /\ tasks' = [tasks EXCEPT ![t] = Finished(tasks[t], Throw(DriverError))]
               /\ UNCHANGED handles
    /\ UNCHANGED <<dbConnections, redisConnections, nextUuid, known, disconnected, tables, keyspace, written, app>>

\* the awaited USE settled: the connection's current database is the one
\* named, and the method issues its statement
DbUseDone(t) ==
    /\ tasks[t].pc = "use"
    /\ \E r \in CallOutcomes(tasks[t].conn) :
          IF r = "ok"
          THEN /\ handles' = [handles EXCEPT ![tasks[t].conn].db = tasks[t].database]
               /\ tasks' = [Clobber(tasks, t, tasks[t].conn, tasks[t].database) EXCEPT ![t] =
                               Awaiting(tasks[t], IF tasks[t].form = "modifyPrimaryKey"
                                                  THEN "dropPk" ELSE "query")]
          ELSE /\ tasks' = [tasks EXCEPT ![t] = Finished(tasks[t], Throw(DriverError))]
               /\ UNCHANGED handles
    /\ UNCHANGED <<dbConnections, redisConnections, nextUuid, known, disconnected, tables, keyspace, written, app>>

\* the awaited statement settled: it ran in the connection's current database
DbQueryDone(t) ==
    /\ tasks[t].pc = "query"
    /\ \E r \in CallOutcomes(tasks[t].conn) :
          tasks' = [tasks EXCEPT ![t] =
                       IF r = "ok"
                       THEN Finished([tasks[t] EXCEPT !.ranIn = handles[tasks[t].conn].db],
                                     Return(IF tasks[t].reply = "data" THEN "rows" ELSE Undefined))
                       ELSE Finished(tasks[t], Throw(DriverError))]
    /\ UNCHANGED <<dbConnections, redisConnections, handles, nextUuid, known, disconnected, tables, keyspace, written, app>>

\* modifyPrimaryKey: DROP PRIMARY KEY settled, its rejection is swallowed;
\* ADD PRIMARY KEY is issued when columns.length > 0
DbDropPkDone(t) ==
    /\ tasks[t].pc = "dropPk"
    /\ \E r \in CallOutcomes(tasks[t].conn) :
          tasks' = [tasks EXCEPT ![t] =
                       IF tasks[t].arg = "columns"
                       THEN Awaiting(tasks[t], "addPk")
                       ELSE Finished(tasks[t], Return(Undefined))]
    /\ UNCHANGED <<dbConnections, redisConnections, handles, nextUuid, known, disconnected, tables, keyspace, written, app>>

\* modifyPrimaryKey: ADD PRIMARY KEY settled
DbAddPkDone(t) ==
    /\ tasks[t].pc = "addPk"
    /\ \E r \in CallOutcomes(tasks[t].conn) :
          tasks' = [tasks EXCEPT ![t] =
                       IF r = "ok"
                       THEN Finished(tasks[t], Return(Undefined))
                       ELSE Finished(tasks[t], Throw(DriverError))]
    /\ UNCHANGED <<dbConnections, redisConnections, handles, nextUuid, known, disconnected, tables, keyspace, written, app>>

\* ------------------------------------- DatabaseManager against a server
\* The steps below are those of modifyPrimaryKey and deleteRows with the
\* server's table behind the handle: a statement acts on the table of the
\* connection's current database.

\* the elements of a value list
Range(seq) == {seq[i] : i \in 1..Len(seq)}
ValueLists == UNION {[1..n -> RowValues] : n \in 0..MaxList}

\* primaryKey.values.map(() => '?').join(', ')
Placeholders(values) == [i \in 1..Len(values) |-> "?"]

\* DbDropPkApplied with a fault: the Error of DROP PRIMARY KEY is not caught
DbDropPkAppliedThrows(t) ==
    /\ tasks[t].pc = "dropPk"
    /\ LET h == tasks[t].conn
           d == handles[h].db
           task == [tasks[t] EXCEPT !.before = tables[d]] IN
       \E r \in CallOutcomes(h) :
          /\ r = "ok" => tables[d].primaryKey
          /\ tables' = IF r = "ok" THEN [tables EXCEPT ![d].primaryKey = FALSE] ELSE tables
          /\ tasks' = [tasks EXCEPT ![t] =
                          IF r = "error" THEN Finished(task, Throw(DriverError))
                          ELSE IF task.arg = "columns" THEN Awaiting(task, "addPk")
                          ELSE Finished(task, Return(Undefined))]
    /\ UNCHANGED <<dbConnections, redisConnections, handles, nextUuid, known, disconnected, keyspace, written, app>>

\* modifyPrimaryKey: DROP PRIMARY KEY settled. The server drops the key only
\* of a table that has one and may refuse for any other reason; `catch (e) {}`
\* swallows the rejection. ADD PRIMARY KEY is issued when columns.length > 0.
DbDropPkApplied(t) ==
    /\ tasks[t].pc = "dropPk"
    /\ LET h == tasks[t].conn
           d == handles[h].db
           task == [tasks[t] EXCEPT !.before = tables[d], !.swallowed = FALSE] IN
       \E r \in CallOutcomes(h) :
          /\ r = "ok" => tables[d].primaryKey
          /\ tables' = IF r = "ok" THEN [tables EXCEPT ![d].primaryKey = FALSE] ELSE tables
          /\ tasks' = [tasks EXCEPT ![t] =
                          LET caught == [task EXCEPT !.swallowed = (r = "error")] IN
                          IF task.arg = "columns" THEN Awaiting(caught, "addPk")
                          ELSE Finished(caught, Return(Undefined))]
    /\ UNCHANGED <<dbConnections, redisConnections, handles, nextUuid, known, disconnected, keyspace, written, app>>

\* modifyPrimaryKey: ADD PRIMARY KEY settled. The server adds the key only to
\* a table that has none.
DbAddPkApplied(t) ==
    /\ tasks[t].pc = "addPk"
    /\ LET h == tasks[t].conn
           d == handles[h].db IN
       \E r \in CallOutcomes(h) :
          /\ r = "ok" => ~tables[d].primaryKey
          /\ tables' = IF r = "ok" THEN [tables EXCEPT ![d].primaryKey = TRUE] ELSE tables
          /\ tasks' = [tasks EXCEPT ![t] =
                          IF r = "ok"
                          THEN Finished(tasks[t], Return(Undefined))
                          ELSE Finished(tasks[t], Throw(DriverError))]
    /\ UNCHANGED <<dbConnections, redisConnections, handles, nextUuid, known, disconnected, keyspace, written, app>>

\* deleteRows: getConnection, then the awaited USE; arg is primaryKey.values
DbDeleteRows(t, id, database, values) ==
    /\ Free(t)
    /\ \E reply \in {h.reply : h \in {x \in DbHandlers : x.method = "deleteRows"}} :
       LET task == [Start("db", "useQuery", reply, id, database, values)
                       EXCEPT !.method = "deleteRows"]
           got == GetConnection(id) IN
       tasks' = [tasks EXCEPT ![t] =
                    IF got.threw
                    THEN Finished(task, got)
                    ELSE Awaiting([task EXCEPT !.conn = got.value], "use")]
    /\ UNCHANGED <<dbConnections, redisConnections, handles, nextUuid, known, disconnected, tables, keyspace, written, app>>

\* deleteRows: DELETE ... WHERE column IN (<placeholders>) settled. The server
\* rejects an empty IN () as a syntax error; otherwise it removes the rows
\* whose key value is listed and reports how many it removed.
DbDeleteRowsApplied(t) ==
    /\ tasks[t].pc = "query"
    /\ tasks[t].method = "deleteRows"
    /\ LET h == tasks[t].conn
           d == handles[h].db
           values == tasks[t].arg
           task == [tasks[t] EXCEPT !.before = tables[d], !.ranIn = d]
           hit == tables[d].rows \cap Range(values) IN
       \E r \in CallOutcomes(h) :
          IF r = "error"
          THEN /\ tasks' = [tasks EXCEPT ![t] = Finished(task, Throw(DriverError))]
               /\ UNCHANGED tables
          ELSE IF Len(Placeholders(values)) = 0
          THEN /\ tasks' = [tasks EXCEPT ![t] = Finished(task, Throw(SyntaxError))]
               /\ UNCHANGED tables
          ELSE /\ tasks' = [tasks EXCEPT ![t] = Finished(task, Return(Cardinality(hit)))]
               /\ tables' = [tables EXCEPT ![d].rows = @ \ hit]
    /\ UNCHANGED <<dbConnections, redisConnections, handles, nextUuid, known, disconnected, keyspace, written, app>>

\* ---------------------------------------------------------- RedisManager
\* getClient: the client of a registered session, or the throw
GetClient(id) ==
    IF id \notin DOMAIN redisConnections \/ redisConnections[id].client = Null
    THEN Throw(NotFoundRedis)
    ELSE Return(redisConnections[id].client)

\* testConnection: new Redis({lazyConnect: true}), up to `await client.connect()`
RedisTestConnection(t) ==
    /\ Free(t)
    /\ CanCreateHandle
    /\ handles' = Append(handles, NewHandle)
    /\ \E reply \in RedisReplies("testConnection") :
       LET task == Start("redis", "testConnection", reply, UnknownId, NoDb, "redis") IN
       tasks' = [tasks EXCEPT ![t] =
                    Awaiting([task EXCEPT !.conn = LastHandle, !.probe = LastHandle], "connect")]
    /\ UNCHANGED <<dbConnections, redisConnections, nextUuid, known, disconnected, tables, keyspace, written, app>>

\* testConnection: connect() settled; on success `await client.ping()`
RedisTestConnectionConnected(t) ==
    /\ tasks[t].pc = "connect"
    /\ \E r \in CallOutcomes(tasks[t].conn) :
          tasks' = [tasks EXCEPT ![t] =
                       IF r = "ok"
                       THEN Awaiting(tasks[t], "ping")
                       ELSE Finished(tasks[t], Throw(DriverError))]
    /\ UNCHANGED <<dbConnections, redisConnections, handles, nextUuid, known, disconnected, tables, keyspace, written, app>>

\* testConnection: ping() settled; on success `await client.quit()`
RedisTestConnectionPinged(t) ==
    /\ tasks[t].pc = "ping"
    /\ tasks[t].form = "testConnection"
    /\ \E r \in CallOutcomes(tasks[t].conn) :
          IF r = "ok"
          THEN /\ handles' = CloseIssued(handles, tasks[t].conn)
               /\ tasks' = [tasks EXCEPT ![t] = Awaiting(tasks[t], "quit")]
          ELSE /\ tasks' = [tasks EXCEPT ![t] = Finished(tasks[t], Throw(DriverError))]
               /\ UNCHANGED handles
    /\ UNCHANGED <<dbConnections, redisConnections, nextUuid, known, disconnected, tables, keyspace, written, app>>

\* testConnection: quit() settled; `return true`
RedisTestConnectionQuit(t) ==
    /\ tasks[t].pc = "quit"
    /\ tasks[t].form = "testConnection"
    /\ \/ /\ handles' = CloseResolved(handles, tasks[t].conn)
          /\ tasks' = [tasks EXCEPT ![t] = Finished(tasks[t], Return("true"))]
       \/ /\ handles' \in CloseRejected(handles, tasks[t].conn)
          /\ tasks' = [tasks EXCEPT ![t] = Finished(tasks[t], Throw(DriverError))]
    /\ UNCHANGED <<dbConnections, redisConnections, nextUuid, known, disconnected, tables, keyspace, written, app>>

\* RedisConnect with a fault: connections.set before the awaited ping
RedisConnectRegistersFirst(t) ==
    /\ Free(t)
    /\ CanCreateHandle
    /\ nextUuid' = nextUuid + 1
    /\ handles' = Append(handles, NewHandle)
    /\ \E reply \in RedisReplies("connect") :
       LET task == Start("redis", "connect", reply, nextUuid, NoDb, "redis") IN
       tasks' = [tasks EXCEPT ![t] = Awaiting([task EXCEPT !.conn = LastHandle], "ping")]
    /\ redisConnections' = MapSet(redisConnections, nextUuid,
                                  [id |-> nextUuid, config |-> [type |-> "redis"],
                                   client |-> LastHandle])
    /\ UNCHANGED <<dbConnections, known, disconnected, tables, keyspace, written, app>>

\* connect: uuidv4(), new Redis(...), up to `await client.ping()`
RedisConnect(t) ==
    /\ Free(t)
    /\ CanCreateHandle
    /\ nextUuid' = nextUuid + 1
    /\ handles' = Append(handles, NewHandle)
    /\ \E reply \in RedisReplies("connect") :
       LET task == Start("redis", "connect", reply, nextUuid, NoDb, "redis") IN
       tasks' = [tasks EXCEPT ![t] = Awaiting([task EXCEPT !.conn = LastHandle], "ping")]
    /\ UNCHANGED <<dbConnections, redisConnections, known, disconnected, tables, keyspace, written, app>>

\* connect: ping() settled; on success connections.set and return
RedisConnectPinged(t) ==
    /\ tasks[t].pc = "ping"
    /\ tasks[t].form = "connect"
    /\ \E r \in CallOutcomes(tasks[t].conn) :
          IF r = "ok"
          THEN /\ redisConnections' = MapSet(redisConnections, tasks[t].id,
                                             [id |-> tasks[t].id,
                                              config |-> [type |-> tasks[t].arg],
                                              client |-> tasks[t].conn])
               /\ tasks' = [tasks EXCEPT ![t] = Finished(tasks[t], Return(tasks[t].id))]
          ELSE /\ tasks' = [tasks EXCEPT ![t] = Finished(tasks[t], Throw(DriverError))]
               /\ UNCHANGED redisConnections
    /\ UNCHANGED <<dbConnections, handles, nextUuid, known, disconnected, tables, keyspace, written, app>>

\* disconnect, up to `await conn.client.quit()`; returns at once when the id
\* has no entry
RedisDisconnect(t, id) ==
    /\ Free(t)
    /\ \E reply \in RedisReplies("disconnect") :
       LET task == Start("redis", "disconnect", reply, id, NoDb, "") IN
       IF id \in DOMAIN redisConnections /\ redisConnections[id].client # Null
       THEN /\ handles' = CloseIssued(handles, redisConnections[id].client)
            /\ tasks' = [tasks EXCEPT ![t] =
                            Awaiting([task EXCEPT !.conn = redisConnections[id].client], "quit")]
            /\ UNCHANGED disconnected
       ELSE /\ tasks' = [tasks EXCEPT ![t] = Finished(task, Return(Undefined))]
            /\ UNCHANGED <<handles, disconnected>>
    /\ UNCHANGED <<dbConnections, redisConnections, nextUuid, known, tables, keyspace, written, app>>

\* disconnect: quit() settled; connections.delete only after it resolved
RedisDisconnectQuit(t) ==
    /\ tasks[t].pc = "quit"
    /\ tasks[t].form = "disconnect"
    /\ \/ /\ handles' = CloseResolved(handles, tasks[t].conn)
          /\ redisConnections' = MapDelete(redisConnections, tasks[t].id)
          /\ tasks' = [tasks EXCEPT ![t] = Finished(tasks[t], Return(Undefined))]
       \/ /\ handles' \in CloseRejected(handles, tasks[t].conn)
          /\ tasks' = [tasks EXCEPT ![t] = Finished(tasks[t], Throw(DriverError))]
          /\ UNCHANGED redisConnections
    /\ disconnected' = disconnected \cup {<<"redis", tasks[t].id>>}
    /\ UNCHANGED <<dbConnections, nextUuid, known, tables, keyspace, written, app>>

\* getDatabases: no getClient, no driver call; the sixteen labels
RedisGetDatabases(t, id) ==
    /\ Free(t)
    /\ \E reply \in RedisReplies("getDatabases") :
       LET task == Start("redis", "getDatabases", reply, id, NoDb, "") IN
       tasks' = [tasks EXCEPT ![t] = Finished(task, Return("db0..db15"))]
    /\ UNCHANGED <<dbConnections, redisConnections, handles, nextUuid, known, disconnected, tables, keyspace, written, app>>

\* selectDatabase, getKeys, getKeyType, deleteKey, getTTL, executeCommand,
\* getInfo, getDbSize: getClient, then one awaited client call
RedisCall(t, id) ==
    /\ Free(t)
    /\ \E reply \in RedisReplies("call") :
       LET task == Start("redis", "call", reply, id, NoDb, "")
           got == GetClient(id) IN
       tasks' = [tasks EXCEPT ![t] =
                    IF got.threw
                    THEN Finished(task, got)
                    ELSE Awaiting([task EXCEPT !.conn = got.value], "call")]
    /\ UNCHANGED <<dbConnections, redisConnections, handles, nextUuid, known, disconnected, tables, keyspace, written, app>>

\* the awaited client call settled
RedisCallDone(t) ==
    /\ tasks[t].pc = "call"
    /\ \E r \in CallOutcomes(tasks[t].conn) :
          tasks' = [tasks EXCEPT ![t] =
                       IF r = "ok"
                       THEN Finished(tasks[t], Return(IF tasks[t].reply = "data"
                                                      THEN "result" ELSE Undefined))
                       ELSE Finished(tasks[t], Throw(DriverError))]
    /\ UNCHANGED <<dbConnections, redisConnections, handles, nextUuid, known, disconnected, tables, keyspace, written, app>>

\* getValue: getClient, then `await client.type(key)`
RedisGetValue(t, id) ==
    /\ Free(t)
    /\ \E reply \in RedisReplies("getValue") :
       LET task == Start("redis", "getValue", reply, id, NoDb, "")
           got == GetClient(id) IN
       tasks' = [tasks EXCEPT ![t] =
                    IF got.threw
                    THEN Finished(task, got)
                    ELSE Awaiting([task EXCEPT !.conn = got.value], "type")]
    /\ UNCHANGED <<dbConnections, redisConnections, handles, nextUuid, known, disconnected, tables, keyspace, written, app>>

\* getValue: type() settled; the five known types await their accessor, any
\* other type returns {type, value: null}
RedisTypeDone(t) ==
    /\ tasks[t].pc = "type"
    /\ \E r \in CallOutcomes(tasks[t].conn) : \E type \in {"string", "none"} :
          tasks' = [tasks EXCEPT ![t] =
                       IF r = "error"
                       THEN Finished(tasks[t], Throw(DriverError))
                       ELSE IF type = "none"
                       THEN Finished(tasks[t], Return("null value"))
                       ELSE Awaiting(tasks[t], "read")]
    /\ UNCHANGED <<dbConnections, redisConnections, handles, nextUuid, known, disconnected, tables, keyspace, written, app>>

\* getValue: the accessor (get, lrange, smembers, zrange, hgetall) settled
RedisReadDone(t) ==
    /\ tasks[t].pc = "read"
    /\ \E r \in CallOutcomes(tasks[t].conn) :
          tasks' = [tasks EXCEPT ![t] =
                       IF r = "ok"
                       THEN Finished(tasks[t], Return("typed value"))
                       ELSE Finished(tasks[t], Throw(DriverError))]
    /\ UNCHANGED <<dbConnections, redisConnections, handles, nextUuid, known, disconnected, tables, keyspace, written, app>>

\* setValue: getClient, then `await client.set(key, value)` only for 'string'
RedisSetValue(t, id, type) ==
    /\ Free(t)
    /\ \E reply \in RedisReplies("setValue") :
       LET task == Start("redis", "setValue", reply, id, NoDb, type)
           got == GetClient(id) IN
       tasks' = [tasks EXCEPT ![t] =
                    IF got.threw
                    THEN Finished(task, got)
                    ELSE IF type = "string"
                    THEN Awaiting([task EXCEPT !.conn = got.value], "set")
                    ELSE Finished([task EXCEPT !.conn = got.value], Return(Undefined))]
    /\ UNCHANGED <<dbConnections, redisConnections, handles, nextUuid, known, disconnected, tables, keyspace, written, app>>

\* setValue: set() settled
RedisSetDone(t) ==
    /\ tasks[t].pc = "set"
    /\ \E r \in CallOutcomes(tasks[t].conn) :
          tasks' = [tasks EXCEPT ![t] =
                       IF r = "ok"
                       THEN Finished(tasks[t], Return(Undefined))
                       ELSE Finished(tasks[t], Throw(DriverError))]
    /\ UNCHANGED <<dbConnections, redisConnections, handles, nextUuid, known, disconnected, tables, keyspace, written, app>>

\* ipcRenderer.invoke resolves with the envelope the handler returned; a
\* connectionId in it is from now on an id the caller can pass. Handing the
\* envelope over reads and writes nothing of the registries, so it is taken
\* before any new invocation starts.
Reply(t) ==
    /\ tasks[t].pc = "done"
    /\ tasks' = [tasks EXCEPT ![t] = NoTask]
    /\ known' = IF "connectionId" \in DOMAIN tasks[t].env
                THEN known \cup {tasks[t].env.connectionId}
                ELSE known
    /\ UNCHANGED <<dbConnections, redisConnections, handles, nextUuid, disconnected, tables, keyspace, written, app>>

\* ------------------------------------------------------ the specification
Next ==
    \E t \in TaskIds :
        \/ Reply(t)
        \/ \E type \in ConfigTypes : DbTestConnection(t, type)
        \/ DbTestConnectionCreated(t)
        \/ DbTestConnectionEnded(t)
        \/ \E type \in ConfigTypes : nextUuid <= MaxIds /\ DbConnect(t, type)
        \/ DbConnectCreated(t)
        \/ \E id \in IdArgs : DbDisconnect(t, id)
        \/ DbDisconnectEnded(t)
        \/ \E id \in IdArgs : DbQuery(t, id)
        \/ \E id \in IdArgs, database \in Databases : DbUseQuery(t, id, database)
        \/ \E id \in IdArgs, database \in Databases, columns \in {"columns", "empty"} :
              DbModifyPrimaryKey(t, id, database, columns)
        \/ DbUseDone(t)
        \/ DbQueryDone(t)
        \/ DbDropPkDone(t)
        \/ DbAddPkDone(t)
        \/ RedisTestConnection(t)
        \/ RedisTestConnectionConnected(t)
        \/ RedisTestConnectionPinged(t)
        \/ RedisTestConnectionQuit(t)
        \/ nextUuid <= MaxIds /\ RedisConnect(t)
        \/ RedisConnectPinged(t)
        \/ \E id \in IdArgs : RedisDisconnect(t, id)
        \/ RedisDisconnectQuit(t)
        \/ \E id \in IdArgs : RedisGetDatabases(t, id)
        \/ \E id \in IdArgs : RedisCall(t, id)
        \/ RedisCallDone(t)
        \/ \E id \in IdArgs : RedisGetValue(t, id)
        \/ RedisTypeDone(t)
        \/ RedisReadDone(t)
        \/ \E id \in IdArgs, type \in {"string", "list"} : RedisSetValue(t, id, type)
        \/ RedisSetDone(t)

Spec == Init /\ [][Next]_vars

\* ---------------------------------------- RedisManager against a server
\* The steps below are those of selectDatabase, getKeys, getValue, setValue
\* and getTTL with the server's keyspace behind the client: a
\* command acts on the logical database the client has selected.

\* the logical database the client's commands act on
Selected(h) == handles[h].index

\* type: string = 'string': the default stands in for an omitted argument
DefaultType(type) == IF type = Undefined THEN "string" ELSE type
\* pattern: string = '*'; a pattern is <prefix>*, '*' having the empty prefix
Star == [omitted |-> FALSE, prefix |-> <<>>]
DefaultPattern(pattern) == IF pattern.omitted THEN Star ELSE pattern
Patterns == {[omitted |-> TRUE, prefix |-> <<>>], Star, [omitted |-> FALSE, prefix |-> <<2>>]}

\* the server's glob match of <prefix>* against a key
Matches(pattern, key) ==
    /\ Len(pattern.prefix) <= Len(key)
    /\ SubSeq(key, 1, Len(pattern.prefix)) = pattern.prefix

\* Array.prototype.sort() without comparator: strings in the order of their
\* UTF-16 code units
RECURSIVE Before(_, _)
Before(a, b) ==
    IF a = <<>> THEN b # <<>>
    ELSE IF b = <<>> THEN FALSE
    ELSE IF Head(a) # Head(b) THEN Head(a) < Head(b)
    ELSE Before(Tail(a), Tail(b))

RECURSIVE Insert(_, _)
Insert(key, sorted) ==
    IF sorted = <<>> THEN <<key>>
    ELSE IF Before(key, Head(sorted)) THEN <<key>> \o sorted
    ELSE <<Head(sorted)>> \o Insert(key, Tail(sorted))

RECURSIVE Sort(_)
Sort(keys) == IF keys = <<>> THEN <<>> ELSE Insert(Head(keys), Sort(Tail(keys)))

\* KEYS replies with the matching keys of the selected database, each once,
\* in no particular order
KeysReplies(h, pattern) ==
    LET found == {k \in Keys : keyspace[Selected(h)][k].type # "none" /\ Matches(pattern, k)} IN
    {order \in [1..Cardinality(found) -> found] : Range(order) = found}

\* the invocation of a RedisManager method of the `call` form on a key or
\* pattern, up to its awaited client command
RedisCommand(t, id, method, arg, pc) ==
    /\ Free(t)
    /\ \E reply \in {h.reply : h \in {x \in RedisHandlers : x.method = method}} :
       LET task == [Start("redis", "call", reply, id, NoDb, arg) EXCEPT !.method = method]
           got == GetClient(id) IN
       tasks' = [tasks EXCEPT ![t] =
                    IF got.threw
                    THEN Finished(task, got)
                    ELSE Awaiting([task EXCEPT !.conn = got.value], pc)]
    /\ UNCHANGED <<dbConnections, redisConnections, handles, nextUuid, known, disconnected, tables, keyspace, written, app>>

\* selectDatabase: getClient, then `await client.select(dbIndex)`
RedisSelectDatabase(t, id, dbIndex) == RedisCommand(t, id, "selectDatabase", dbIndex, "select")

\* RedisSelected with a fault: the index becomes that of every client
RedisSelectedEverywhere(t) ==
    /\ tasks[t].pc = "select"
    /\ \E r \in CallOutcomes(tasks[t].conn) :
          IF r = "ok" /\ tasks[t].arg \in LogicalDatabases
          THEN /\ handles' = [h \in DOMAIN handles |-> [handles[h] EXCEPT !.index = tasks[t].arg]]
               /\ tasks' = [tasks EXCEPT ![t] = Finished(tasks[t], Return(Undefined))]
          ELSE /\ tasks' = [tasks EXCEPT ![t] = Finished(tasks[t], Throw(DriverError))]
               /\ UNCHANGED handles
    /\ UNCHANGED <<dbConnections, redisConnections, nextUuid, known, disconnected, tables, keyspace, written, app>>

\* select() settled: the server rejects an index it does not have (ERR DB
\* index is out of range), and the client keeps the database it had
RedisSelected(t) ==
    /\ tasks[t].pc = "select"
    /\ \E r \in CallOutcomes(tasks[t].conn) :
          IF r = "ok" /\ tasks[t].arg \in LogicalDatabases
          THEN /\ handles' = [handles EXCEPT ![tasks[t].conn].index = tasks[t].arg]
               /\ tasks' = [tasks EXCEPT ![t] = Finished(tasks[t], Return(Undefined))]
          ELSE /\ tasks' = [tasks EXCEPT ![t] = Finished(tasks[t], Throw(DriverError))]
               /\ UNCHANGED handles
    /\ UNCHANGED <<dbConnections, redisConnections, nextUuid, known, disconnected, tables, keyspace, written, app>>

\* getKeys: getClient, then `await client.keys(pattern)`
RedisGetKeys(t, id, pattern) == RedisCommand(t, id, "getKeys", pattern, "keys")

\* RedisKeysListed with a fault: the reply is returned as the server gave it
RedisKeysListedUnsorted(t) ==
    /\ tasks[t].pc = "keys"
    /\ LET h == tasks[t].conn
           task == [tasks[t] EXCEPT !.ranIn = Selected(h)] IN
       \E r \in CallOutcomes(h) :
          IF r = "ok"
          THEN \E keys \in KeysReplies(h, DefaultPattern(task.arg)) :
                  tasks' = [tasks EXCEPT ![t] = Finished(task, Return(keys))]
          ELSE tasks' = [tasks EXCEPT ![t] = Finished(task, Throw(DriverError))]
    /\ UNCHANGED <<dbConnections, redisConnections, handles, nextUuid, known, disconnected, tables, keyspace, written, app>>

\* keys() settled; `return keys.sort()`
RedisKeysListed(t) ==
    /\ tasks[t].pc = "keys"
    /\ LET h == tasks[t].conn
           task == [tasks[t] EXCEPT !.ranIn = Selected(h)] IN
       \E r \in CallOutcomes(h) :
          IF r = "ok"
          THEN \E keys \in KeysReplies(h, DefaultPattern(task.arg)) :
                  tasks' = [tasks EXCEPT ![t] = Finished(task, Return(Sort(keys)))]
          ELSE tasks' = [tasks EXCEPT ![t] = Finished(task, Throw(DriverError))]
    /\ UNCHANGED <<dbConnections, redisConnections, handles, nextUuid, known, disconnected, tables, keyspace, written, app>>

\* getTTL: getClient, then `await client.ttl(key)`
RedisGetTTL(t, id, key) == RedisCommand(t, id, "getTTL", [key |-> key], "ttl")

\* ttl() settled: -1 for a key without expiry, -2 for a key that does not exist
RedisTtlRead(t) ==
    /\ tasks[t].pc = "ttl"
    /\ LET h == tasks[t].conn
           task == [tasks[t] EXCEPT !.ranIn = Selected(h)] IN
       \E r \in CallOutcomes(h) :
          tasks' = [tasks EXCEPT ![t] =
                       IF r = "ok"
                       THEN Finished(task, Return(keyspace[Selected(h)][task.arg.key].ttl))
                       ELSE Finished(task, Throw(DriverError))]
    /\ UNCHANGED <<dbConnections, redisConnections, handles, nextUuid, known, disconnected, tables, keyspace, written, app>>

\* getValue on a key: getClient, then `await client.type(key)`
RedisGetValueOf(t, id, key) ==
    /\ Free(t)
    /\ \E reply \in RedisReplies("getValue") :
       LET task == Start("redis", "getValue", reply, id, NoDb, [key |-> key, type |-> "none"])
           got == GetClient(id) IN
       tasks' = [tasks EXCEPT ![t] =
                    IF got.threw
                    THEN Finished(task, got)
                    ELSE Awaiting([task EXCEPT !.conn = got.value], "typeOf")]
    /\ UNCHANGED <<dbConnections, redisConnections, handles, nextUuid, known, disconnected, tables, keyspace, written, app>>

\* Accessor with a fault: no case 'hash', which falls to the default
AccessorWithoutHash(type) ==
    CASE type = "string" -> "get"
      [] type = "list" -> "lrange 0 -1"
      [] type = "set" -> "smembers"
      [] type = "zset" -> "zrange 0 -1 WITHSCORES"
      [] OTHER -> "default"

\* getValue: the command `switch (type)` sends for the key
Accessor(type) ==
    CASE type = "string" -> "get"
      [] type = "list" -> "lrange 0 -1"
      [] type = "set" -> "smembers"
      [] type = "zset" -> "zrange 0 -1 WITHSCORES"
      [] type = "hash" -> "hgetall"
      [] OTHER -> "default"

\* the server's reply to an accessor on what the key holds: the whole
\* structure when the key is of the accessor's type, the empty structure
\* (null for GET) when the key does not exist, WRONGTYPE otherwise
AccessorReply(accessor, entry) ==
    IF entry.type = "none"
    THEN CASE accessor = "get" -> "null"
           [] accessor = "hgetall" -> "{}"
           [] OTHER -> "[]"
    ELSE IF \/ accessor = "get" /\ entry.type = "string"
            \/ accessor = "lrange 0 -1" /\ entry.type = "list"
            \/ accessor = "smembers" /\ entry.type = "set"
            \/ accessor = "zrange 0 -1 WITHSCORES" /\ entry.type = "zset"
            \/ accessor = "hgetall" /\ entry.type = "hash"
    THEN entry.value
    ELSE WrongType

\* getValue: type() settled; `switch (type)`: a string, list, set, zset or
\* hash awaits its accessor, the default returns {type, value: null}
RedisTypeRead(t) ==
    /\ tasks[t].pc = "typeOf"
    /\ LET h == tasks[t].conn
           type == keyspace[Selected(h)][tasks[t].arg.key].type
           task == [tasks[t] EXCEPT !.arg.type = type, !.ranIn = Selected(h)] IN
       \E r \in CallOutcomes(h) :
          tasks' = [tasks EXCEPT ![t] =
                       IF r = "error"
                       THEN Finished(task, Throw(DriverError))
                       ELSE IF Accessor(type) # "default"
                       THEN Awaiting(task, "accessor")
                       ELSE Finished(task, Return([type |-> type, value |-> "null"]))]
    /\ UNCHANGED <<dbConnections, redisConnections, handles, nextUuid, known, disconnected, tables, keyspace, written, app>>

\* getValue: the accessor settled; `return {type, value}`
RedisValueRead(t) ==
    /\ tasks[t].pc = "accessor"
    /\ LET h == tasks[t].conn
           reply == AccessorReply(Accessor(tasks[t].arg.type),
                                  keyspace[Selected(h)][tasks[t].arg.key]) IN
       \E r \in CallOutcomes(h) :
          tasks' = [tasks EXCEPT ![t] =
                       IF r = "error"
                       THEN Finished(tasks[t], Throw(DriverError))
                       ELSE IF reply = WrongType
                       THEN Finished(tasks[t], Throw(WrongType))
                       ELSE Finished(tasks[t],
                                     Return([type |-> tasks[t].arg.type, value |-> reply]))]
    /\ UNCHANGED <<dbConnections, redisConnections, handles, nextUuid, known, disconnected, tables, keyspace, written, app>>

\* RedisSetValueTo with a fault: client.set is awaited whatever the type
RedisSetValueToAnyType(t, id, key, value, type) ==
    /\ Free(t)
    /\ \E reply \in RedisReplies("setValue") :
       LET task == Start("redis", "setValue", reply, id, NoDb,
                         [key |-> key, value |-> value, type |-> DefaultType(type)])
           got == GetClient(id) IN
       tasks' = [tasks EXCEPT ![t] =
                    IF got.threw
                    THEN Finished(task, got)
                    ELSE Awaiting([task EXCEPT !.conn = got.value], "setTo")]
    /\ UNCHANGED <<dbConnections, redisConnections, handles, nextUuid, known, disconnected, tables, keyspace, written, app>>

\* setValue of a key: getClient, then `await client.set(key, value)` only
\* when type === 'string'
RedisSetValueTo(t, id, key, value, type) ==
    /\ Free(t)
    /\ \E reply \in RedisReplies("setValue") :
       LET task == Start("redis", "setValue", reply, id, NoDb,
                         [key |-> key, value |-> value, type |-> DefaultType(type)])
           got == GetClient(id) IN
       tasks' = [tasks EXCEPT ![t] =
                    IF got.threw
                    THEN Finished(task, got)
                    ELSE IF task.arg.type = "string"
                    THEN Awaiting([task EXCEPT !.conn = got.value], "setTo")
                    ELSE Finished([task EXCEPT !.conn = got.value], Return(Undefined))]
    /\ UNCHANGED <<dbConnections, redisConnections, handles, nextUuid, known, disconnected, tables, keyspace, written, app>>

\* RedisValueSet with a fault: SET keeps the expiry the key had
RedisValueSetKeepsTtl(t) ==
    /\ tasks[t].pc = "setTo"
    /\ LET h == tasks[t].conn
           db == Selected(h)
           arg == tasks[t].arg
           task == [tasks[t] EXCEPT !.ranIn = db] IN
       \E r \in CallOutcomes(h) :
          IF r = "ok"
          THEN /\ tasks' = [tasks EXCEPT ![t] = Finished(task, Return(Undefined))]
               /\ keyspace' = [keyspace EXCEPT ![db][arg.key] =
                                  [StringEntry(arg.value) EXCEPT !.ttl =
                                      IF keyspace[db][arg.key].ttl = -2 THEN -1
                                      ELSE keyspace[db][arg.key].ttl]]
               /\ written' = {w \in written : w.db # db \/ w.key # arg.key}
                                \cup {[id |-> task.id, db |-> db, key |-> arg.key, value |-> arg.value]}
          ELSE /\ tasks' = [tasks EXCEPT ![t] = Finished(task, Throw(DriverError))]
               /\ UNCHANGED <<keyspace, written>>
    /\ UNCHANGED <<dbConnections, redisConnections, handles, nextUuid, known, disconnected, tables, app>>

\* setValue: set() settled. SET replaces whatever the key held, of any type,
\* and discards its expiry.
RedisValueSet(t) ==
    /\ tasks[t].pc = "setTo"
    /\ LET h == tasks[t].conn
           db == Selected(h)
           arg == tasks[t].arg
           task == [tasks[t] EXCEPT !.ranIn = db] IN
       \E r \in CallOutcomes(h) :
          IF r = "ok"
          THEN /\ tasks' = [tasks EXCEPT ![t] = Finished(task, Return(Undefined))]
               /\ keyspace' = [keyspace EXCEPT ![db][arg.key] = StringEntry(arg.value)]
               /\ written' = {w \in written : w.db # db \/ w.key # arg.key}
                                \cup {[id |-> task.id, db |-> db, key |-> arg.key, value |-> arg.value]}
          ELSE /\ tasks' = [tasks EXCEPT ![t] = Finished(task, Throw(DriverError))]
               /\ UNCHANGED <<keyspace, written>>
    /\ UNCHANGED <<dbConnections, redisConnections, handles, nextUuid, known, disconnected, tables, app>>

\* deleteKey: getClient, then `return await client.del(key)`
RedisDeleteKey(t, id, key) == RedisCommand(t, id, "deleteKey", [key |-> key], "del")

\* del() settled: the key is gone, and the reply counts the keys removed
RedisKeyDeleted(t) ==
    /\ tasks[t].pc = "del"
    /\ LET h == tasks[t].conn
           db == Selected(h)
           key == tasks[t].arg.key
           task == [tasks[t] EXCEPT !.ranIn = db] IN
       \E r \in CallOutcomes(h) :
          IF r = "ok"
          THEN /\ tasks' = [tasks EXCEPT ![t] =
                               Finished(task, Return(IF keyspace[db][key].type = "none"
                                                     THEN 0 ELSE 1))]
               /\ keyspace' = [keyspace EXCEPT ![db][key] = NoEntry]
               /\ written' = {w \in written : w.db # db \/ w.key # key}
          ELSE /\ tasks' = [tasks EXCEPT ![t] = Finished(task, Throw(DriverError))]
               /\ UNCHANGED <<keyspace, written>>
    /\ UNCHANGED <<dbConnections, redisConnections, handles, nextUuid, known, disconnected, tables, app>>

\* ------------------------------------------- one caller against a server
\* The specifications below follow the data of a backend through the
\* operations of one caller, who awaits each envelope before the next call:
\* the first slot takes an invocation, every other slot stays idle.
Alone(t) == \A u \in TaskIds \ {t} : u > t /\ tasks[u].pc = "idle"

\* the MySQL server holds any tables when the program starts
InitTables ==
    /\ dbConnections = <<>>
    /\ redisConnections = <<>>
    /\ handles = <<>>
    /\ nextUuid = 1
    /\ tasks = [t \in TaskIds |-> NoTask]
    /\ known = {}
    /\ disconnected = {}
    /\ tables \in Tables
    /\ keyspace = [i \in DbIndexes |-> [k \in Keys |-> NoEntry]]
    /\ written = {}
    /\ app = NoApp

NextTables ==
    \E t \in TaskIds :
        \/ Reply(t)
        \/ Alone(t) /\ nextUuid <= MaxIds /\ DbConnect(t, "mysql")
        \/ DbConnectCreated(t)
        \/ \E id \in IdArgs, database \in Databases, columns \in {"columns", "empty"} :
              Alone(t) /\ DbModifyPrimaryKey(t, id, database, columns)
        \/ \E id \in IdArgs, database \in Databases, values \in ValueLists :
              Alone(t) /\ DbDeleteRows(t, id, database, values)
        \/ DbUseDone(t)
        \/ DbDropPkApplied(t)
        \/ DbAddPkApplied(t)
        \/ DbDeleteRowsApplied(t)

SpecTables == InitTables /\ [][NextTables]_vars

\* the Redis server when the program starts: db0 holds a set, a sorted set
\* and, under a key with the prefix, a list that expires; db1 holds a hash
\* and a stream
InitialEntry(i, k) ==
    CASE i = 0 /\ k = <<1>> -> SetEntry
      [] i = 0 /\ k = <<2, 1>> -> ZsetEntry
      [] i = 0 /\ k = <<2, 2>> -> ListEntry
      [] i = 1 /\ k = <<1>> -> HashEntry
      [] i = 1 /\ k = <<2, 1>> -> StreamEntry
      [] OTHER -> NoEntry

InitKeys ==
    /\ dbConnections = <<>>
    /\ redisConnections = <<>>
    /\ handles = <<>>
    /\ nextUuid = 1
    /\ tasks = [t \in TaskIds |-> NoTask]
    /\ known = {}
    /\ disconnected = {}
    /\ tables = [d \in Databases |-> NoTable]
    /\ keyspace = [i \in DbIndexes |-> [k \in Keys |-> InitialEntry(i, k)]]
    /\ written = {}
    /\ app = NoApp

NextKeys ==
    \E t \in TaskIds :
        \/ Reply(t)
        \/ Alone(t) /\ nextUuid <= MaxIds /\ RedisConnect(t)
        \/ RedisConnectPinged(t)
        \/ \E id \in IdArgs, dbIndex \in DbIndexes : Alone(t) /\ RedisSelectDatabase(t, id, dbIndex)
        \/ RedisSelected(t)
        \/ \E id \in IdArgs, pattern \in Patterns : Alone(t) /\ RedisGetKeys(t, id, pattern)
        \/ RedisKeysListed(t)
        \/ \E id \in IdArgs, key \in Keys : Alone(t) /\ RedisGetValueOf(t, id, key)
        \/ RedisTypeRead(t)
        \/ RedisValueRead(t)
        \/ \E id \in IdArgs, key \in Keys, value \in Strings, type \in {"string", "list", Undefined} :
              Alone(t) /\ RedisSetValueTo(t, id, key, value, type)
        \/ RedisValueSet(t)
        \/ \E id \in IdArgs, key \in Keys : Alone(t) /\ RedisGetTTL(t, id, key)
        \/ RedisTtlRead(t)

SpecKeys == InitKeys /\ [][NextKeys]_vars

\* ------------------------------------------- callers racing on one server
\* Concurrent invocations on one Redis session read, write and delete the
\* keys of the server of InitKeys.
NextRace ==
    \E t \in TaskIds :
        \/ Reply(t)
        \/ nextUuid <= MaxIds /\ RedisConnect(t)
        \/ RedisConnectPinged(t)
        \/ \E id \in IdArgs, key \in Keys : RedisGetValueOf(t, id, key)
        \/ RedisTypeRead(t)
        \/ RedisValueRead(t)
        \/ \E id \in IdArgs, key \in Keys, value \in Strings :
              RedisSetValueTo(t, id, key, value, "string")
        \/ RedisValueSet(t)
        \/ \E id \in IdArgs, key \in Keys : RedisDeleteKey(t, id, key)
        \/ RedisKeyDeleted(t)

SpecRace == InitKeys /\ [][NextRace]_vars

\* ------------------------------------------------------- column defaults
\* addColumn and modifyColumn put the column's default into the ALTER TABLE
\* text. A text is the sequence of its characters.
MaxDefault == 2
Digits == {"0", "1", "2", "3", "4", "5", "6", "7", "8", "9"}
LowerCase == <<"a", "b", "c", "d", "e", "f", "g", "h", "i", "j", "k", "l", "m",
               "n", "o", "p", "q", "r", "s", "t", "u", "v", "w", "x", "y", "z">>
UpperCase == <<"A", "B", "C", "D", "E", "F", "G", "H", "I", "J", "K", "L", "M",
               "N", "O", "P", "Q", "R", "S", "T", "U", "V", "W", "X", "Y", "Z">>

\* String.prototype.toUpperCase, startsWith
ToUpperCase(text) ==
    [i \in 1..Len(text) |->
        IF \E n \in 1..Len(LowerCase) : LowerCase[n] = text[i]
        THEN UpperCase[CHOOSE n \in 1..Len(LowerCase) : LowerCase[n] = text[i]]
        ELSE text[i]]
StartsWith(text, prefix) ==
    Len(prefix) <= Len(text) /\ SubSeq(text, 1, Len(prefix)) = prefix

\* const specialValues = ['NULL', 'CURRENT_TIMESTAMP', 'CURRENT_DATE', 'CURRENT_TIME', 'NOW()']
NullWord == <<"N", "U", "L", "L">>
TemporalWords ==
    { <<"C", "U", "R", "R", "E", "N", "T", "_", "T", "I", "M", "E", "S", "T", "A", "M", "P">>,
      <<"C", "U", "R", "R", "E", "N", "T", "_", "D", "A", "T", "E">>,
      <<"C", "U", "R", "R", "E", "N", "T", "_", "T", "I", "M", "E">>,
      <<"N", "O", "W", "(", ")">> }
SpecialValues == {NullWord} \cup TemporalWords

\* /^-?\d+(\.\d+)?$/.test(text)
AllDigits(text) == text # <<>> /\ \A i \in 1..Len(text) : text[i] \in Digits
IsNumber(text) ==
    LET unsigned == IF text # <<>> /\ Head(text) = "-" THEN Tail(text) ELSE text
        dots == {i \in 1..Len(unsigned) : unsigned[i] = "."} IN
    IF dots = {} THEN AllDigits(unsigned)
    ELSE \E i \in dots : /\ AllDigits(SubSeq(unsigned, 1, i - 1))
                         /\ AllDigits(SubSeq(unsigned, i + 1, Len(unsigned)))

\* formatDefaultValue
FormatDefaultValue(defaultValue) ==
    IF defaultValue = <<>> THEN <<>>
    ELSE IF \E v \in SpecialValues : StartsWith(ToUpperCase(defaultValue), v) THEN defaultValue
    ELSE IF IsNumber(defaultValue) THEN defaultValue
    ELSE IF defaultValue = <<"'", "'">> THEN <<"'", "'">>
    ELSE <<"'">> \o defaultValue \o <<"'">>

\* what follows the column type in the statement: nothing, or the DEFAULT
\* clause; column.defaultValue may be undefined
NoDefault == <<"undefined">>
DefaultClause(defaultValue) ==
    IF defaultValue # NoDefault /\ defaultValue # <<>>
    THEN <<" DEFAULT ">> \o FormatDefaultValue(defaultValue)
    ELSE <<>>

\* the defaults a caller passes: none, every text of up to MaxDefault
\* characters of a small alphabet, and some longer ones
ShortDefaults ==
    UNION { [1..n -> {"N", "a", "1", "-", ".", "'"}] : n \in 0..MaxDefault }
LongDefaults ==
    { NullWord,
      <<"n", "u", "l", "l">>,
      <<"N", "U", "L", "L", "A", "B", "L", "E">>,
      <<"N", "u", "l", "l", "s">>,
      <<"C", "U", "R", "R", "E", "N", "T", "_", "T", "I", "M", "E", "S", "T", "A", "M", "P">>,
      <<"c", "u", "r", "r", "e", "n", "t", "_", "t", "i", "m", "e", "s", "t", "a", "m", "p", "(", "3", ")">>,
      <<"C", "U", "R", "R", "E", "N", "T", "_", "D", "A", "T", "E">>,
      <<"C", "U", "R", "R", "E", "N", "T", "_", "T", "I", "M", "E">>,
      <<"N", "O", "W", "(", ")">>,
      <<"N", "O", "W">>,
      <<"-", "1", "2", ".", "5", "0">>,
      <<"1", ".", "2", ".", "3">>,
      <<"1", "e", "5">>,
      <<"i", "t", "'", "s">>,
      <<"a", "c", "t", "i", "v", "e">> }
DefaultValues == {NoDefault} \cup ShortDefaults \cup LongDefaults

\* addColumn / modifyColumn: getConnection, then the awaited USE
DbAlterColumn(t, id, database, method, defaultValue) ==
    /\ Free(t)
    /\ \E reply \in {h.reply : h \in {x \in DbHandlers : x.method = method}} :
       LET task == [Start("db", "useQuery", reply, id, database,
                          [defaultValue |-> defaultValue, clause |-> <<>>])
                       EXCEPT !.method = method]
           got == GetConnection(id) IN
       tasks' = [tasks EXCEPT ![t] =
                    IF got.threw
                    THEN Finished(task, got)
                    ELSE Awaiting([task EXCEPT !.conn = got.value], "use")]
    /\ UNCHANGED <<dbConnections, redisConnections, handles, nextUuid, known, disconnected, tables, keyspace, written, app>>

\* addColumn / modifyColumn: USE settled; the statement text is built, with
\* its DEFAULT clause, and awaited
DbColumnStatement(t) ==
    /\ tasks[t].pc = "use"
    /\ tasks[t].method \in {"addColumn", "modifyColumn"}
    /\ \E r \in CallOutcomes(tasks[t].conn) :
          IF r = "ok"
          THEN /\ handles' = [handles EXCEPT ![tasks[t].conn].db = tasks[t].database]
               /\ tasks' = [Clobber(tasks, t, tasks[t].conn, tasks[t].database) EXCEPT ![t] =
                               Awaiting([tasks[t] EXCEPT !.arg.clause =
                                            DefaultClause(tasks[t].arg.defaultValue)],
                                        "query")]
          ELSE /\ tasks' = [tasks EXCEPT ![t] = Finished(tasks[t], Throw(DriverError))]
               /\ UNCHANGED handles
    /\ UNCHANGED <<dbConnections, redisConnections, nextUuid, known, disconnected, tables, keyspace, written, app>>

NextColumns ==
    \E t \in TaskIds :
        \/ Reply(t)
        \/ Alone(t) /\ nextUuid <= MaxIds /\ DbConnect(t, "mysql")
        \/ DbConnectCreated(t)
        \/ \E id \in IdArgs, database \in Databases, method \in {"addColumn", "modifyColumn"},
                 defaultValue \in DefaultValues :
              Alone(t) /\ DbAlterColumn(t, id, database, method, defaultValue)
        \/ DbColumnStatement(t)
        \/ DbQueryDone(t)

SpecColumns == Init /\ [][NextColumns]_vars

\* ------------------------------------------------------- calls that hang
\* A server can stop answering on one connection: from then on no call
\* awaited on that handle settles. Every handle has a socket of its own, so
\* a call settles when its own handle has not stalled.
Hang(h) ==
    /\ ~handles[h].stalled
    /\ handles' = [handles EXCEPT ![h].stalled = TRUE]
    /\ UNCHANGED <<dbConnections, redisConnections, nextUuid, tasks, known, disconnected, tables, keyspace, written, app>>

\* Responsive with a fault: one stalled handle holds up the calls on all
ResponsiveNoneStalled(t) == \A h \in DOMAIN handles : ~handles[h].stalled

Responsive(t) == IF tasks[t].conn = Null THEN TRUE ELSE ~handles[tasks[t].conn].stalled

\* the resumption of invocation t after its awaited call settled, and the
\* delivery of its envelope
Resume(t) ==
    \/ Reply(t)
    \/ Responsive(t) /\ DbUseDone(t)
    \/ Responsive(t) /\ DbQueryDone(t)
    \/ Responsive(t) /\ RedisCallDone(t)

\* the program after db:connect and redis:connect have each returned a
\* session to the caller: session 1 is relational, session 2 key-value
InitHang ==
    /\ dbConnections = MapSet(<<>>, 1, [id |-> 1, config |-> [type |-> "mysql"], connection |-> 1])
    /\ redisConnections = MapSet(<<>>, 2, [id |-> 2, config |-> [type |-> "redis"], client |-> 2])
    /\ handles = <<NewHandle, NewHandle>>
    /\ nextUuid = 3
    /\ tasks = [t \in TaskIds |-> NoTask]
    /\ known = {1, 2}
    /\ disconnected = {}
    /\ tables = [d \in Databases |-> NoTable]
    /\ keyspace = [i \in DbIndexes |-> [k \in Keys |-> NoEntry]]
    /\ written = {}
    /\ app = NoApp

NextHang ==
    \/ \E t \in TaskIds :
          \/ Resume(t)
          \/ \E id \in IdArgs, database \in Databases : DbUseQuery(t, id, database)
          \/ \E id \in IdArgs : RedisCall(t, id)
    \/ \E h \in DOMAIN handles : Hang(h)

\* The event loop runs the continuation of every settled promise, and the
\* driver settles every call whose handle answers: a resumption that stays
\* possible is eventually taken.
SpecHang == InitHang /\ [][NextHang]_vars /\ \A t \in TaskIds : WF_vars(Resume(t))

\* ------------------------------------------------------------ the renderer
\* App keeps the saved connections, each with the session id it was last
\* given, and ConnectionPanel lets the user create one, click one, edit one
\* and delete one. Each of these handlers invokes one channel and resumes on
\* its envelope; the user starts one at a time.
AppIdle == app.handler = NoHandler
Entries == {app.connections[i] : i \in DOMAIN app.connections}

\* the handler runs up to its awaited window.electronAPI call
Handling(op, id, type) ==
    /\ AppIdle
    /\ app' = [app EXCEPT !.handler = [op |-> op, id |-> id, type |-> type]]
    /\ UNCHANGED <<dbConnections, redisConnections, handles, nextUuid, tasks, known, disconnected, tables, keyspace, written>>

\* ConnectionForm.handleSubmit of a new connection, up to the awaited connect
PanelSubmitNew(type) ==
    /\ Len(app.connections) < MaxSaved
    /\ nextUuid <= MaxSessions
    /\ Handling("create", UnknownId, type)

\* ConnectionForm.handleSubmit with editConnection set, up to the awaited connect
PanelSubmitEdit(entry) == nextUuid <= MaxSessions /\ Handling("edit", entry.id, entry.type)

\* App.handleConnectionSelected, up to the awaited connect
PanelSelect(entry) == nextUuid <= MaxSessions /\ Handling("select", entry.id, entry.type)

\* App.handleConnectionDeleted, up to the awaited disconnect
PanelDelete(entry) == Handling("delete", entry.id, entry.type)

\* the main process takes the invocation the handler sent: connect /
\* redisConnect or disconnect / redisDisconnect by the type of the config
Invoked(t) ==
    /\ ~AppIdle
    /\ Alone(t)
    /\ IF app.handler.op = "delete"
       THEN IF app.handler.type = "redis"
            THEN RedisDisconnect(t, app.handler.id)
            ELSE DbDisconnect(t, app.handler.id)
       ELSE IF app.handler.type = "redis"
            THEN RedisConnect(t)
            ELSE DbConnect(t, app.handler.type)

\* connections.filter(c => c.id !== id), connections.map(c => c.id === id ? {...c, id: newId} : c)
RECURSIVE Filter(_, _)
Filter(list, id) ==
    IF list = <<>> THEN <<>>
    ELSE IF Head(list).id = id THEN Filter(Tail(list), id)
    ELSE <<Head(list)>> \o Filter(Tail(list), id)
Renumber(list, id, newId) ==
    [i \in DOMAIN list |-> IF list[i].id = id THEN [list[i] EXCEPT !.id = newId] ELSE list[i]]

\* the list after the handler resumed on envelope env: a created connection
\* is appended under the id connect returned; an edited one keeps
\* editConnection.id; a selected one takes the id of the session just
\* opened; a deleted one is dropped whatever disconnect returned
Resumed(list, handler, env) ==
    CASE handler.op = "create" /\ env.success ->
            Append(list, [id |-> env.connectionId, type |-> handler.type])
      [] handler.op = "select" /\ env.success -> Renumber(list, handler.id, env.connectionId)
      [] handler.op = "delete" -> Filter(list, handler.id)
      [] OTHER -> list

\* the awaited invoke resolved with the envelope, and the handler runs on
PanelResumed(t) ==
    /\ tasks[t].pc = "done"
    /\ ~AppIdle
    /\ tasks' = [tasks EXCEPT ![t] = NoTask]
    /\ known' = IF "connectionId" \in DOMAIN tasks[t].env
                THEN known \cup {tasks[t].env.connectionId}
                ELSE known
    /\ app' = [connections |-> Resumed(app.connections, app.handler, tasks[t].env),
               handler |-> NoHandler]
    /\ UNCHANGED <<dbConnections, redisConnections, handles, nextUuid, disconnected, tables, keyspace, written>>

NextPanel ==
    \/ \E type \in {"mysql", "redis"} : PanelSubmitNew(type)
    \/ \E entry \in Entries : PanelSubmitEdit(entry)
    \/ \E entry \in Entries : PanelSelect(entry)
    \/ \E entry \in Entries : PanelDelete(entry)
    \/ \E t \in TaskIds :
          \/ Invoked(t)
          \/ PanelResumed(t)
          \/ DbConnectCreated(t)
          \/ RedisConnectPinged(t)
          \/ DbDisconnectEnded(t)
          \/ RedisDisconnectQuit(t)

SpecPanel == Init /\ [][NextPanel]_vars

\* ------------------------------------------ several sessions on one server
\* Concurrent callers open up to MaxSessions Redis sessions on the server of
\* InitKeys, select logical databases on them and list their keys.
NextSessions ==
    \E t \in TaskIds :
        \/ Reply(t)
        \/ nextUuid <= MaxSessions /\ RedisConnect(t)
        \/ RedisConnectPinged(t)
        \/ \E id \in IdArgs, dbIndex \in DbIndexes \cup {NoSuchIndex} :
              RedisSelectDatabase(t, id, dbIndex)
        \/ RedisSelected(t)
        \/ \E id \in IdArgs : RedisGetKeys(t, id, Star)
        \/ RedisKeysListed(t)

SpecSessions == InitKeys /\ [][NextSessions]_vars

\* ------------------------------------------------------------ the claims
Done(t) == tasks[t].pc = "done"
InFlight(t) == tasks[t].pc \notin {"idle", "done"}
\* the operations that act on an existing session through its handle
Scoped(task) == task.form \notin {"testConnection", "connect", "disconnect"}
NotFound(mgr) == IF mgr = "db" THEN NotFoundDb ELSE NotFoundRedis
NotFoundEnvelope(mgr) == [success |-> FALSE, error |-> NotFound(mgr)]

\* C1: every scoped operation issued on a session id after a disconnect of
\* that id has returned (whatever the close call did) fails with the
\* registry's session-not-found error.
C1_AfterDisconnectNotFound ==
    \A t \in TaskIds :
        Done(t) /\ Scoped(tasks[t]) /\ tasks[t].afterDisconnect
            => tasks[t].env = NotFoundEnvelope(tasks[t].mgr)

\* C2: every scoped operation called with an id absent from its registry
\* fails with session-not-found before any driver call, as {success: false,
\* error}.
C2_AbsentIdNotFound ==
    \A t \in TaskIds :
        Done(t) /\ Scoped(tasks[t]) /\ tasks[t].absent
            => tasks[t].env = NotFoundEnvelope(tasks[t].mgr) /\ tasks[t].calls = 0

\* C3: once disconnect(id) has returned the registry has no entry for id, and
\* a disconnect of an absent id returns success without any driver call.
C3_DisconnectRemoves ==
    \A t \in TaskIds :
        Done(t) /\ tasks[t].form = "disconnect"
            => /\ tasks[t].id \notin DOMAIN Registry(tasks[t].mgr)
               /\ tasks[t].absent => tasks[t].env = [success |-> TRUE] /\ tasks[t].calls = 0

\* C4: in every state every registered session has a non-null handle that is
\* open, neither closing nor closed.
C4_RegisteredHandleOpen ==
    /\ \A id \in DOMAIN dbConnections :
          /\ dbConnections[id].connection # Null
          /\ handles[dbConnections[id].connection].status = "open"
    /\ \A id \in DOMAIN redisConnections :
          /\ redisConnections[id].client # Null
          /\ handles[redisConnections[id].client].status = "open"

\* C5: a registry gains an entry only in the step in which a connect of that
\* registry returns that id with success, after its handshake call resolved;
\* no step of a test-connection, of a failing connect or of any other
\* operation adds an id, and no registered id belongs to a connect still
\* awaiting its handshake.
C5_RegistersOnlyAtConnectEnd ==
    [][ /\ \A id \in DOMAIN dbConnections' \ DOMAIN dbConnections :
              \E t \in TaskIds :
                  /\ tasks[t].mgr = "db" /\ tasks[t].form = "connect"
                  /\ tasks[t].pc = "createConnection"
                  /\ tasks'[t].pc = "done"
                  /\ tasks'[t].env = [success |-> TRUE, connectionId |-> id]
        /\ \A id \in DOMAIN redisConnections' \ DOMAIN redisConnections :
              \E t \in TaskIds :
                  /\ tasks[t].mgr = "redis" /\ tasks[t].form = "connect"
                  /\ tasks[t].pc = "ping"
                  /\ tasks'[t].pc = "done"
                  /\ tasks'[t].env = [success |-> TRUE, connectionId |-> id]
        /\ \A t \in TaskIds :
              tasks'[t].form = "connect" /\ tasks'[t].pc \in {"createConnection", "ping"}
                  => tasks'[t].id \notin DOMAIN dbConnections' \cup DOMAIN redisConnections'
      ]_vars

\* C5 witness: a connect has just returned the id it registered, while the
\* other registry is still empty.
C5_Witness ==
    \E t \in TaskIds :
        /\ Done(t) /\ tasks[t].form = "connect" /\ tasks[t].env.success
        /\ tasks[t].id \in DOMAIN Registry(tasks[t].mgr)

\* C6: every handler returns an envelope, whatever its registry method did:
\* an envelope has a success flag, and a method that threw gives exactly
\* {success: false, error: <the message>}.
C6_HandlerReturnsEnvelope ==
    \A t \in TaskIds :
        Done(t) =>
            /\ "success" \in DOMAIN tasks[t].env
            /\ tasks[t].out.threw <=> ~tasks[t].env.success
            /\ tasks[t].out.threw
                  => tasks[t].env = [success |-> FALSE, error |-> tasks[t].out.value]

\* C6 witness: a method rejected by the driver, returned as a failure envelope.
C6_Witness ==
    \E t \in TaskIds :
        /\ Done(t) /\ tasks[t].out = Throw(DriverError)
        /\ tasks[t].env = [success |-> FALSE, error |-> DriverError]

\* C7 as stated: every envelope has exactly one of data and error, and a
\* success envelope carries data (with connectionId for the connects).
C7_ExactlyOnePopulated ==
    \A t \in TaskIds :
        Done(t) =>
            /\ ("data" \in DOMAIN tasks[t].env) # ("error" \in DOMAIN tasks[t].env)
            /\ tasks[t].env.success => "data" \in DOMAIN tasks[t].env
            /\ "connectionId" \in DOMAIN tasks[t].env <=>
                  tasks[t].env.success /\ tasks[t].form = "connect"

\* C7 amended: an envelope never has both a payload and an error. A failure
\* envelope is exactly {success, error}; a success envelope has no error and
\* is {success, data} for a handler of a method with a result,
\* {success, connectionId} (no data) for the two connects, and {success}
\* alone for the handlers of the methods that return nothing.
C7_AtMostOnePopulated ==
    \A t \in TaskIds :
        Done(t) =>
            DOMAIN tasks[t].env =
                IF ~tasks[t].env.success THEN {"success", "error"}
                ELSE IF tasks[t].form = "connect" THEN {"success", "connectionId"}
                ELSE IF tasks[t].reply = "none" THEN {"success"}
                ELSE {"success", "data"}

\* C7 witness: a disconnect returned {success: true}, with neither data nor
\* error.
C7_Witness ==
    \E t \in TaskIds :
        /\ Done(t) /\ tasks[t].form = "disconnect" /\ ~tasks[t].absent
        /\ tasks[t].env = [success |-> TRUE]

C9_ProbeClosed ==
    \A t \in TaskIds :
        Done(t) /\ tasks[t].form = "testConnection" /\ tasks[t].probe # Null
            => handles[tasks[t].probe].closeIssued

\* C10 as stated: the statement of a database-scoped operation executes in
\* the database that operation named.
C10_StatementInOwnDatabase ==
    \A t \in TaskIds :
        Done(t) /\ tasks[t].form = "useQuery" /\ ~tasks[t].out.threw
            => tasks[t].ranIn = tasks[t].database

\* C10 amended: the statement executes in the database the operation named
\* unless, between its USE and its statement, the USE of another operation
\* on the same session naming another database took effect: operations in
\* flight on one session do fight over the connection's current database.
C10_StatementInOwnDatabaseUnlessClobbered ==
    \A t \in TaskIds :
        Done(t) /\ tasks[t].form = "useQuery" /\ ~tasks[t].out.threw /\ ~tasks[t].clobbered
            => tasks[t].ranIn = tasks[t].database

\* C10 witness: a scoped operation's statement ran in its own database while
\* another operation on the same session, naming another database, was in
\* flight.
C10_Witness ==
    \E t, u \in TaskIds :
        /\ Done(t) /\ tasks[t].form = "useQuery" /\ ~tasks[t].out.threw
        /\ ~tasks[t].clobbered /\ tasks[t].ranIn = tasks[t].database
        /\ tasks[u].form = "useQuery" /\ tasks[u].pc \in {"use", "query"}
        /\ tasks[u].id = tasks[t].id /\ tasks[u].database # tasks[t].database

\* C11: modifyPrimaryKey with an empty column list, once past its USE,
\* succeeds whether or not the table has a primary key, and whenever it
\* reports success the table has no primary key afterwards.
C11_EmptyListLeavesNoPrimaryKey ==
    \A t \in TaskIds :
        /\ Done(t) /\ tasks[t].form = "modifyPrimaryKey"
        /\ tasks[t].arg = "empty" /\ tasks[t].calls >= 2
        => /\ tasks[t].env = [success |-> TRUE]
           /\ ~tables[tasks[t].database].primaryKey

\* C12: in modifyPrimaryKey a failed DROP PRIMARY KEY is never surfaced and
\* never aborts the operation: once DROP has settled, ADD PRIMARY KEY is
\* issued exactly when the column list is non-empty, an empty list returns
\* success, and the operation fails only when its USE (its single driver
\* call) or its ADD (its third) failed.
C12_DropFailureSwallowed ==
    \A t \in TaskIds :
        tasks[t].form = "modifyPrimaryKey" =>
            /\ tasks[t].pc = "addPk" => tasks[t].arg = "columns" /\ tasks[t].calls = 3
            /\ Done(t) /\ tasks[t].calls >= 2 =>
                  /\ tasks[t].arg = "columns" => tasks[t].calls = 3
                  /\ tasks[t].arg = "empty" =>
                        tasks[t].calls = 2 /\ tasks[t].env = [success |-> TRUE]
            /\ Done(t) /\ ~tasks[t].env.success /\ ~tasks[t].absent =>
                  /\ tasks[t].out = Throw(DriverError)
                  /\ tasks[t].calls = 1 \/ (tasks[t].calls = 3 /\ tasks[t].arg = "columns")

\* C12 witness: DROP PRIMARY KEY was rejected, ADD PRIMARY KEY was issued all
\* the same, and the operation returned success.
C12_Witness ==
    \E t \in TaskIds :
        /\ Done(t) /\ tasks[t].form = "modifyPrimaryKey" /\ tasks[t].swallowed
        /\ tasks[t].arg = "columns" /\ tasks[t].calls = 3
        /\ tasks[t].env = [success |-> TRUE]

\* C15: deleteRows whose statement reached the server, given a list of k
\* distinct key values that are all in the table, returns k as the affected
\* count, for every k including 0, and removes exactly the listed rows.
C15_DeleteRowsReturnsK ==
    \A t \in TaskIds :
        /\ Done(t) /\ tasks[t].method = "deleteRows" /\ tasks[t].calls = 2
        /\ tasks[t].out.threw => tasks[t].out.value # DriverError
        /\ Cardinality(Range(tasks[t].arg)) = Len(tasks[t].arg)
        /\ Range(tasks[t].arg) \subseteq tasks[t].before.rows
        => /\ tasks[t].env = [success |-> TRUE, data |-> Len(tasks[t].arg)]
           /\ tables[tasks[t].database].rows = tasks[t].before.rows \ Range(tasks[t].arg)

\* C13: once setValue(id, k, v) with type 'string' or no type has returned
\* success, and until k is written again, a getValue(id, k) on the same
\* logical database returns {type: 'string', value: v} and a getTTL(id, k)
\* returns -1, whatever k held before the write.
C13_SetThenGetRoundTrips ==
    \A t \in TaskIds : \A w \in written :
        /\ Done(t) /\ tasks[t].mgr = "redis" /\ ~tasks[t].out.threw
        /\ tasks[t].form = "getValue" \/ tasks[t].method = "getTTL"
        /\ tasks[t].id = w.id /\ tasks[t].arg.key = w.key /\ tasks[t].ranIn = w.db
        => /\ tasks[t].form = "getValue" =>
                 tasks[t].env = [success |-> TRUE,
                                 data |-> [type |-> "string", value |-> w.value]]
           /\ tasks[t].method = "getTTL" =>
                 tasks[t].env = [success |-> TRUE, data |-> -1]

\* C13 witness: a key that held a list with an expiry was written as a
\* string, and getTTL on it returned -1.
C13_Witness ==
    \E t \in TaskIds : \E w \in written :
        /\ Done(t) /\ tasks[t].method = "getTTL" /\ ~tasks[t].out.threw
        /\ tasks[t].id = w.id /\ tasks[t].arg.key = w.key /\ tasks[t].ranIn = w.db
        /\ w.db = 0 /\ w.key = <<2, 2>>
        /\ tasks[t].env = [success |-> TRUE, data |-> -1]

\* C14: getKeys returns exactly the keys of the client's selected logical
\* database that match the pattern, each once and in ascending order of
\* their code units; '*', or no pattern, gives every key of that database,
\* 'user:*' only keys with that prefix; and the selected database is the one
\* the last selectDatabase that succeeded named.
C14_KeysSortedOfSelected ==
    \A t \in TaskIds :
        Done(t) /\ tasks[t].mgr = "redis" /\ ~tasks[t].out.threw =>
            LET client == redisConnections[tasks[t].id].client
                keys == tasks[t].out.value
                present == {k \in Keys : keyspace[handles[client].index][k].type # "none"} IN
            /\ tasks[t].method = "selectDatabase" => handles[client].index = tasks[t].arg
            /\ tasks[t].method = "getKeys" =>
                  /\ tasks[t].env = [success |-> TRUE, data |-> keys]
                  /\ \A i, j \in 1..Len(keys) : i < j => Before(keys[i], keys[j])
                  /\ tasks[t].arg.omitted \/ tasks[t].arg.prefix = <<>> => Range(keys) = present
                  /\ ~tasks[t].arg.omitted =>
                        Range(keys) = {k \in present :
                                          /\ Len(k) >= Len(tasks[t].arg.prefix)
                                          /\ \A i \in 1..Len(tasks[t].arg.prefix) :
                                                k[i] = tasks[t].arg.prefix[i]}

\* C14 witness: after selectDatabase(1), getKeys('user:*') returned the two
\* keys with the prefix that database 1 holds, and not its third key.
C14_Witness ==
    \E t \in TaskIds :
        /\ Done(t) /\ tasks[t].method = "getKeys" /\ ~tasks[t].out.threw
        /\ tasks[t].ranIn = 1 /\ tasks[t].arg = [omitted |-> FALSE, prefix |-> <<2>>]
        /\ tasks[t].out.value = <<<<2, 1>>, <<2, 2>>>>
        /\ keyspace[1][<<1>>].type # "none"

\* C16: db:test-connection and db:connect work for the types 'postgresql'
\* and 'sqlite' as they do for 'mysql': they fail only when the driver does,
\* and a connect that returns success has registered its session.
C16_AllTypesSupported ==
    \A t \in TaskIds :
        Done(t) /\ tasks[t].mgr = "db" /\ tasks[t].form \in {"testConnection", "connect"} =>
            /\ tasks[t].out.threw => tasks[t].out.value = DriverError
            /\ tasks[t].form = "connect" /\ ~tasks[t].out.threw =>
                  tasks[t].id \in DOMAIN dbConnections

\* the registry that is not mgr
Other(mgr) == IF mgr = "db" THEN "redis" ELSE "db"

\* C17: the registries own disjoint sessions. A scoped operation of one
\* registry called with an id registered in the other returns
\* session-not-found, and no step of a disconnect changes the other registry
\* or a handle registered there.
C17_RegistriesDisjoint ==
    [][ \A t \in TaskIds :
          /\ /\ tasks[t].pc # "done" /\ tasks'[t].pc = "done" /\ Scoped(tasks'[t])
             /\ tasks'[t].id \in DOMAIN Registry(Other(tasks'[t].mgr))
             => tasks'[t].env = NotFoundEnvelope(tasks'[t].mgr)
          /\ tasks'[t].form = "disconnect" /\ tasks'[t] # tasks[t] /\ tasks'[t].pc # "idle" =>
                /\ tasks'[t].mgr = "db" =>
                      /\ redisConnections' = redisConnections
                      /\ \A id \in DOMAIN redisConnections :
                            handles'[redisConnections[id].client] = handles[redisConnections[id].client]
                /\ tasks'[t].mgr = "redis" =>
                      /\ dbConnections' = dbConnections
                      /\ \A id \in DOMAIN dbConnections :
                            handles'[dbConnections[id].connection] = handles[dbConnections[id].connection]
      ]_vars

\* C18: disconnect removes the session at its start: while a disconnect is
\* awaiting the close call its id is not registered, and a scoped operation
\* issued for that id meanwhile returns session-not-found at once.
C18_DisconnectRemovesAtStart ==
    [][ \A u \in TaskIds :
          tasks'[u].form = "disconnect" /\ tasks'[u].pc \in {"end", "quit"} =>
              /\ tasks'[u].id \notin DOMAIN (IF tasks'[u].mgr = "db"
                                               THEN dbConnections' ELSE redisConnections')
              /\ \A t \in TaskIds :
                    /\ tasks[t].pc = "idle" /\ tasks'[t].pc # "idle" /\ Scoped(tasks'[t])
                    /\ tasks'[t].mgr = tasks'[u].mgr /\ tasks'[t].id = tasks'[u].id
                    => /\ tasks'[t].pc = "done"
                       /\ tasks'[t].env = NotFoundEnvelope(tasks'[t].mgr)
      ]_vars

\* C19: an operation that holds a handle on which a disconnect has issued the
\* close never returns success: when it returns, it returns the driver's
\* error; and no id comes back into a registry once a disconnect has been
\* issued for it.
C19_InFlightFailsOnClosedHandle ==
    [][ /\ \A t \in TaskIds :
              /\ InFlight(t) /\ Scoped(tasks[t]) /\ tasks[t].conn # Null
              /\ handles[tasks[t].conn].status # "open"
              /\ tasks'[t].pc = "done"
              => tasks'[t].env = [success |-> FALSE, error |-> DriverError]
        /\ \A id \in (DOMAIN dbConnections' \ DOMAIN dbConnections)
                        \cup (DOMAIN redisConnections' \ DOMAIN redisConnections) :
              /\ id \notin {d[2] : d \in disconnected}
              /\ \A u \in TaskIds : tasks[u].form = "disconnect" => tasks[u].id # id
      ]_vars

\* the methods of DatabaseManager that take a `database` argument
DatabaseScoped ==
    {h \in DbHandlers : h.method \notin {"testConnection", "connect", "disconnect", "getDatabases"}}
Statements == {"query", "dropPk", "addPk"}

\* a task of one of `forms` starts with the USE for its own database on the
\* session's handle, awaits a statement only after that USE took effect, and
\* returns without a statement when the USE is rejected
UseFirst(forms) ==
    \A t \in TaskIds :
        tasks'[t].mgr = "db" /\ tasks'[t].form \in forms =>
            /\ tasks[t].pc = "idle" /\ InFlight(t)' =>
                  /\ tasks'[t].pc = "use"
                  /\ tasks'[t].conn = dbConnections[tasks'[t].id].connection
            /\ tasks'[t].pc \in Statements =>
                  /\ tasks[t].pc \in {"use"} \cup Statements
                  /\ tasks[t].pc = "use" =>
                        handles'[tasks[t].conn].db = tasks[t].database
            /\ tasks[t].pc = "use" /\ tasks'[t].pc = "done" =>
                  tasks'[t].calls = 1 /\ tasks'[t].out = Throw(DriverError)

\* C20 as stated: every method with a database argument, getTableForeignKeys
\* included, issues USE before its statement.
C20_UseBeforeStatement ==
    [][UseFirst({h.form : h \in DatabaseScoped})]_vars

\* C20 amended: every method with a database argument except
\* getTableForeignKeys issues USE for its own database on the session's
\* handle before its statement, and issues no statement when that USE fails.
\* getTableForeignKeys issues its one statement without any USE.
C20_UseBeforeStatementExceptForeignKeys ==
    [][ /\ UseFirst({h.form : h \in {x \in DatabaseScoped : x.method # "getTableForeignKeys"}})
        /\ \A h \in DatabaseScoped : h.method = "getTableForeignKeys" =>
              \A t \in TaskIds :
                  /\ tasks'[t].mgr = "db" /\ tasks'[t].form = h.form
                  /\ tasks[t].pc = "idle" /\ InFlight(t)'
                  => tasks'[t].pc = "query" /\ tasks'[t].calls = 1
      ]_vars

\* C20 witness: the USE of a database-scoped operation was rejected and the
\* operation returned the failure after that one driver call.
C20_Witness ==
    \E t \in TaskIds :
        /\ Done(t) /\ tasks[t].mgr = "db" /\ tasks[t].form \in {"useQuery", "modifyPrimaryKey"}
        /\ ~tasks[t].absent /\ tasks[t].calls = 1
        /\ tasks[t].env = [success |-> FALSE, error |-> DriverError]

\* C21: selectDatabase changes the active logical database of its own session
\* and nothing else: the registries, the ids handed out and every other
\* client stay as they were; when select() rejects, the index out of range
\* included, the call fails and the session's active database stays too.
C21_SelectChangesOnlyOwnIndex ==
    [][\A t \in TaskIds :
          tasks[t].pc = "select" /\ tasks'[t].pc = "done" =>
             LET h == tasks[t].conn IN
             /\ redisConnections' = redisConnections
             /\ dbConnections' = dbConnections
             /\ known' = known
             /\ \A g \in DOMAIN handles : g # h => handles'[g] = handles[g]
             /\ handles'[h] = [handles[h] EXCEPT !.index = handles'[h].index]
             /\ IF tasks'[t].env.success
                THEN handles'[h].index = tasks[t].arg
                ELSE handles'[h].index = handles[h].index
             /\ tasks[t].arg \notin LogicalDatabases => ~tasks'[t].env.success]_vars

\* two sessions are registered on different logical databases, and a
\* select of an index the server does not have has failed
C21_Witness ==
    /\ \E i, j \in DOMAIN redisConnections :
          /\ i # j
          /\ Selected(redisConnections[i].client) # Selected(redisConnections[j].client)
    /\ \E t \in TaskIds :
          /\ Done(t)
          /\ tasks[t].method = "selectDatabase"
          /\ tasks[t].arg = NoSuchIndex
          /\ ~tasks[t].env.success

\* C22: setValue with a type other than 'string' on a registered session
\* returns success at once, without a driver call and with the keyspace as it
\* was; on an id that is not registered it fails with session-not-found,
\* whatever the type.
C22_NonStringSetIsNoOp ==
    [][\A t \in TaskIds :
          tasks[t].pc = "idle" /\ tasks'[t].form = "setValue" =>
             LET task == tasks'[t] IN
             /\ task.absent =>
                   task.pc = "done" /\ task.env = NotFoundEnvelope("redis")
             /\ ~task.absent /\ task.arg.type # "string" =>
                   /\ task.pc = "done"
                   /\ task.env = [success |-> TRUE]
                   /\ task.calls = 0
                   /\ keyspace' = keyspace]_vars

\* a setValue of type 'list' has returned success on a registered session
\* whose selected database holds the key
C22_Witness ==
    \E t \in TaskIds :
       /\ Done(t)
       /\ tasks[t].form = "setValue"
       /\ tasks[t].arg.type = "list"
       /\ tasks[t].id \in DOMAIN redisConnections
       /\ tasks[t].env = [success |-> TRUE]
       /\ LET h == redisConnections[tasks[t].id].client IN
          keyspace[Selected(h)][tasks[t].arg.key].type # "none"

\* C23: a getValue that returns tags its payload with the type the key has
\* and carries what the accessor of that type reads: the scalar of a string,
\* the items of a list in order, the members of a set, the members with
\* scores of a sorted set, the field-to-value mapping of a hash; for a key
\* that does not exist or has any other type it is the success
\* {type, value: null}. It fails only when the driver does.
C23_ValueTaggedAndReadByType ==
    \A t \in TaskIds :
        Done(t) /\ tasks[t].form = "getValue" /\ ~tasks[t].absent =>
            LET entry == keyspace[tasks[t].ranIn][tasks[t].arg.key]
                data == tasks[t].env.data IN
            IF tasks[t].out.threw
            THEN tasks[t].out.value = DriverError
            ELSE /\ tasks[t].env.success
                 /\ data.type = entry.type
                 /\ entry.type = "string" => data.value \in Strings
                 /\ entry.type = "list" => data.value = "items in order"
                 /\ entry.type = "set" => data.value = "members"
                 /\ entry.type = "zset" => data.value = "members with scores in order"
                 /\ entry.type = "hash" => data.value = "fields to values"
                 /\ entry.type \notin {"string", "list", "set", "zset", "hash"} =>
                       data.value = "null"

\* getValue has returned the mapping of a hash from the database the client
\* selected
C23_Witness ==
    \E t \in TaskIds :
       /\ Done(t) /\ tasks[t].form = "getValue"
       /\ tasks[t].env = [success |-> TRUE,
                          data |-> [type |-> "hash", value |-> "fields to values"]]
       /\ tasks[t].ranIn = 1

\* the statement of an addColumn or modifyColumn has been sent
ClauseSent(t) ==
    /\ tasks[t].method \in {"addColumn", "modifyColumn"}
    /\ tasks[t].pc = "query" \/ (Done(t) /\ tasks[t].calls = 2)

\* C24: in addColumn and modifyColumn a non-empty default goes into the
\* statement unquoted only when it is NULL, starts with a temporal keyword or
\* is a numeric literal; the two-character text '' goes in as ''; every other
\* text, one that merely begins with the letters NULL included, goes in
\* wrapped in single quotes; an empty or missing default gives no DEFAULT
\* clause.
C24_DefaultQuoting ==
    \A t \in TaskIds :
        ClauseSent(t) =>
            LET d == tasks[t].arg.defaultValue
                clause == tasks[t].arg.clause IN
            IF d = NoDefault \/ d = <<>> THEN clause = <<>>
            ELSE IF \/ ToUpperCase(d) = NullWord
                    \/ \E w \in TemporalWords : StartsWith(ToUpperCase(d), w)
                    \/ IsNumber(d)
            THEN clause = <<" DEFAULT ">> \o d
            ELSE IF d = <<"'", "'">> THEN clause = <<" DEFAULT ", "'", "'">>
            ELSE clause = <<" DEFAULT ", "'">> \o d \o <<"'">>

\* invocation t awaits a call on a handle that has stalled
Stalled(t) == InFlight(t) /\ tasks[t].conn # Null /\ handles[tasks[t].conn].stalled

\* C25: an operation whose driver call never returns blocks only itself:
\* under a fair event loop every invocation, on either registry, completes
\* and delivers its envelope unless a call of its own is the one that hangs,
\* however many invocations hang on other sessions.
C25_HungCallBlocksOnlyItself ==
    \A t \in TaskIds :
        (tasks[t].pc # "idle") ~> (tasks[t].pc = "idle" \/ Stalled(t))

\* an operation on one session has returned success while an operation on
\* another session hangs
C25_Witness ==
    \E t, u \in TaskIds :
       /\ Stalled(u) /\ Scoped(tasks[u])
       /\ Done(t) /\ Scoped(tasks[t]) /\ tasks[t].env.success
       /\ tasks[t].calls > 0
       /\ tasks[t].id # tasks[u].id

\* C26: each session's handle is closed at most once: however disconnect
\* calls on one id interleave, in either registry, no disconnect issues
\* end() / quit() on a handle on which the close call was already issued.
C26_ClosedAtMostOnce ==
    [][\A t \in TaskIds :
          /\ tasks[t].pc = "idle"
          /\ tasks'[t].form = "disconnect"
          /\ tasks'[t].pc \in {"end", "quit"}
          => ~handles[tasks'[t].conn].closeIssued]_vars

\* C27: whenever a disconnect of a session has returned, with a success
\* envelope or with the failure of the driver's close call, the session's id
\* is absent from its registry.
C27_ReturnedDisconnectUnregisters ==
    \A mgr \in {"db", "redis"} : \A id \in DOMAIN Registry(mgr) :
        <<mgr, id>> \notin disconnected

\* C28: a connect that fails leaves no live driver object behind: when a
\* connect returns a failure, the connection or client it created, if any,
\* has had its close call issued.
C28_FailedConnectClosesHandle ==
    [][\A t \in TaskIds :
          /\ tasks[t].form = "connect"
          /\ InFlight(t)
          /\ tasks'[t].pc = "done"
          /\ tasks'[t].out.threw
          /\ tasks[t].conn # Null
          => handles'[tasks[t].conn].closeIssued]_vars

\* C29: every session registered in a registry is referenced by an entry of
\* the renderer's connection list: once a handler of the panel has run to
\* its end (create, click, edit or delete), no registry holds a session
\* whose id the list does not carry.
C29_RegisteredSessionsListed ==
    AppIdle /\ (\A t \in TaskIds : tasks[t].pc = "idle") =>
        \A mgr \in {"db", "redis"} : \A id \in DOMAIN Registry(mgr) :
            \E entry \in Entries : entry.id = id

\* the values that have the shape a type tag names; an accessor of a key
\* that is gone reads the empty structure
ShapeOf(type) ==
    CASE type = "string" -> Strings
      [] type = "list" -> {"items in order", "[]"}
      [] type = "set" -> {"members", "[]"}
      [] type = "zset" -> {"members with scores in order", "[]"}
      [] type = "hash" -> {"fields to values", "{}"}
      [] OTHER -> {"null"}

\* C30: getValue is consistent under interleaving: while other invocations
\* delete its key or replace it with a value of another type, a getValue on
\* a registered session returns a success whose value has the shape its
\* type tag names, and never fails with the server's wrong-type error.
C30_GetValueConsistent ==
    \A t \in TaskIds :
        Done(t) /\ tasks[t].form = "getValue" /\ ~tasks[t].absent =>
            IF tasks[t].out.threw
            THEN tasks[t].out.value # WrongType
            ELSE tasks[t].out.value.value \in ShapeOf(tasks[t].out.value.type)
====
